---------------------------- MODULE Spec2Model ----------------------------
(***************************************************************************)
(* Model of blockstats-explorer (src/src/bin/main.rs and its modules):     *)
(*   - build_index: header scan, genesis marking, height resolution         *)
(*     (get_block_height), tip selection, linearization, save;             *)
(*   - UtxoSet: add_output / mark_for_removal / get_value / commit_removals;*)
(*   - export_arrow_file: the per-block tracker protocol;                  *)
(*   - get_block_reward, calculate_block_fees and calculate_quantiles,     *)
(*     each called on its own;                                             *)
(*   - BlockFileReader (block_parser.rs): seeks and reads on one file;     *)
(*   - iterate_blocks and the loop of block_iterator.rs;                   *)
(*   - the obfuscation-key record of the block-index store                 *)
(*     (block_iterator.rs) and of the chainstate store (chain_tip.rs).     *)
(* The specifications share the variables: SpecBuild, SpecUtxo,            *)
(* SpecExport, SpecFees, SpecFeeRates, SpecQuantiles, SpecKeys, SpecReader *)
(* and SpecIterate.  Each leaves the variables of the other parts alone.   *)
(* SpecBuildLive is build_index under weak fairness, for progress.         *)
(***************************************************************************)
EXTENDS Integers, Naturals, Sequences, FiniteSets, TLC

VARIABLES
    \* ---- build_index ----
    headers,         \* the discovered containers: block hash -> prev_blockhash
    scanned,         \* hashes whose record read_next_header has returned
    blocks_by_hash,  \* main.rs:249  hash -> [prev_hash, height]
    genesis_hash,    \* main.rs:250  Option<BlockHash> as a set of size <= 1
    pending,         \* all_hashes not yet passed to get_block_height
    last_call,       \* the last get_block_height call: [hash, before, ret]
    tip_hash,        \* main.rs:383  Option<BlockHash> as a set of size <= 1
    block_index,     \* main.rs:413  [blocks: height -> hash, tip_height]
    current_hash,    \* main.rs:415
    current_height,  \* main.rs:416
    saved,           \* what save_to_file wrote in this run (set of size <= 1)
    bpc,             \* position inside build_index
    berr,            \* the error build_index returned ("" when none)
    \* ---- UtxoSet driven call by call ----
    tracker,         \* main.rs:160  [active: key -> sats, to_remove: keys]
    ulast,           \* the latest UtxoSet call, its arguments and its result
    last_mark,       \* (txid, vout, was it active) of the mark_for_removal call just made,
                     \* kept through a commit_removals that directly follows
    \* ---- export_arrow_file ----
    x_in,            \* the request: [utxo, max_height, columns, tip_height]
    xpc,             \* position inside export_arrow_file
    x_height,        \* main.rs:801  the loop variable
    cur_block,       \* main.rs:806  the block read at x_height (its txdata)
    seen_txids,      \* txids of the blocks read so far
    x_chain,         \* the blocks read so far, by height (x_chain[i] at i - 1)
    utxo_set,        \* main.rs:793  Option<UtxoSet> as a set of size <= 1
    xlog,            \* tracker calls and the extraction made for cur_block
    builders,        \* main.rs:788  one list of values per expanded column
    out_file,        \* what was written to `filename` (set of size <= 1)
    xerr,            \* the error export_arrow_file returned ("" when none)
    \* ---- a pure function applied to drawn arguments ----
    p_in,            \* the arguments
    p_out,           \* the values returned
    p_pc,            \* "idle", "args" (nothing called yet) or "called"
    \* ---- BlockFileReader ----
    r_file,          \* the bytes of the container file
    r_key,           \* block_parser.rs:10  xor_key
    r_pos,           \* block_parser.rs:8   stream position of `reader`
    r_last,          \* the latest call on the reader and what it returned
    \* ---- iteration over an index ----
    it_in,           \* the run: [program, xor_key, blocks, start, end]
    it_pc,           \* "idle" | "run" | "done" | "aborted"
    it_next,         \* the next height the loop yields
    it_log,          \* what was printed: [height, kind] per block
    it_err           \* the error iterate_blocks returned ("" when none)

buildVars == <<headers, scanned, blocks_by_hash, genesis_hash, pending,
               last_call, tip_hash, block_index, current_hash,
               current_height, saved, bpc, berr>>

utxoVars == <<tracker, ulast, last_mark>>

exportVars == <<x_in, xpc, x_height, cur_block, seen_txids, x_chain,
                utxo_set, xlog, builders, out_file, xerr>>

pureVars == <<p_in, p_out, p_pc>>

readerVars == <<r_file, r_key, r_pos, r_last>>

iterVars == <<it_in, it_pc, it_next, it_log, it_err>>

vars == <<buildVars, utxoVars, exportVars, pureVars, readerVars, iterVars>>

(* What each part leaves alone. *)
notBuildVars == <<utxoVars, exportVars, pureVars, readerVars, iterVars>>
notUtxoVars == <<buildVars, exportVars, pureVars, readerVars, iterVars>>
notExportVars == <<buildVars, utxoVars, pureVars, readerVars, iterVars>>
notPureVars == <<buildVars, utxoVars, exportVars, readerVars, iterVars>>
notReaderVars == <<buildVars, utxoVars, exportVars, pureVars, iterVars>>
notIterVars == <<buildVars, utxoVars, exportVars, pureVars, readerVars>>

(* The parts a specification does not run stay as they are here. *)
PureIdle ==
    /\ p_in = <<>>
    /\ p_out = <<>>
    /\ p_pc = "idle"

ReaderIdle ==
    /\ r_file = <<>>
    /\ r_key = <<>>
    /\ r_pos = 0
    /\ r_last = <<>>

IterIdle ==
    /\ it_in = <<>>
    /\ it_pc = "idle"
    /\ it_next = 0
    /\ it_log = <<>>
    /\ it_err = ""

-----------------------------------------------------------------------------
(* Bounds *)

\* Number of distinct block hashes the containers may hold.
MaxBlocks == 5

\* Tip height of the index an export reads.
MaxTipHeight == 2

\* Largest number of transactions in a block an export reads.
MaxTxPerBlock == 2

\* Number of halvings whose heights get_block_reward is applied to.
MaxHalvings == 34

\* Number of whole records in a container file.
MaxRecords == 2

\* Number of distinct transaction ids.
NumTxids == 2

\* Largest number of outputs of a transaction (vout < MaxOutputs).
MaxOutputs == 2

\* Largest output value in satoshis.
MaxValue == 2

\* Longest list handed to calculate_quantiles called on its own.
MaxSamples == 101

\* Longest obfuscation-key record of a store, in bytes.
MaxKeyRecord == 10

\* Most outputs held, and most keys staged, by a tracker called directly.
MaxActive == 2
MaxStaged == 2

(* Program constants *)

\* The two heights at which add_output tolerates a key already present.
DupCoinbaseHeightA == 91842
DupCoinbaseHeightB == 91880

\* BlockHash::from_byte_array([0; 32]), the prev-hash of a genesis block.
ZeroHash == 0

Hashes == 1 .. MaxBlocks

-----------------------------------------------------------------------------
(* enum BlockHeight { NotYetKnown, Known(u32), Orphaned } *)

NotYetKnown == [tag |-> "NotYetKnown", h |-> 0]
Orphaned == [tag |-> "Orphaned", h |-> 0]
Known(n) == [tag |-> "Known", h |-> n]

IsKnown(x) == x.tag = "Known"

(* The empty working map and index. *)
EmptyMap == [x \in {} |-> NotYetKnown]
BlockIndexNew == [blocks |-> EmptyMap, tip_height |-> 0]

(* add_block that forgets to raise tip_height. *)
add_block_KeepsTip(idx, height, hash) ==
    [blocks |-> [k \in DOMAIN idx.blocks \cup {height} |->
                    IF k = height THEN hash ELSE idx.blocks[k]],
     tip_height |-> idx.tip_height]

(* BlockIndex::add_block: insert, and raise tip_height when exceeded. *)
add_block(idx, height, hash) ==
    [blocks |-> [k \in DOMAIN idx.blocks \cup {height} |->
                    IF k = height THEN hash ELSE idx.blocks[k]],
     tip_height |-> IF height > idx.tip_height THEN height
                    ELSE idx.tip_height]

-----------------------------------------------------------------------------
(* get_block_height, main.rs:295-366 *)

(* Marking that reaches only the hash at which the walk stopped. *)
MarkStack_LastOnly(map, stack, height) ==
    [x \in DOMAIN map |->
        IF stack[Len(stack)] = x
        THEN [map[x] EXCEPT !.height = height]
        ELSE map[x]]

(* Set the height of every hash of the stack that is present in the map. *)
MarkStack(map, stack, height) ==
    [x \in DOMAIN map |->
        IF \E i \in 1 .. Len(stack) : stack[i] = x
        THEN [map[x] EXCEPT !.height = height]
        ELSE map[x]]

(* Phase 1: push hashes backwards until a block of known status, or a   *)
(* hash missing from the map.  Result: [kind, stack, map].              *)
RECURSIVE WalkBack(_, _, _)
WalkBack(current, stack, map) ==
    LET stack1 == Append(stack, current) IN
    IF current \notin DOMAIN map
    THEN [kind |-> "orphaned", stack |-> stack1,
          map |-> MarkStack(map, stack1, Orphaned)]
    ELSE IF map[current].height.tag = "Known"
    THEN [kind |-> "known", stack |-> stack1, map |-> map]
    ELSE IF map[current].height.tag = "Orphaned"
    THEN [kind |-> "orphaned", stack |-> stack1,
          map |-> MarkStack(map, stack1, Orphaned)]
    ELSE WalkBack(map[current].prev_hash, stack1, map)

(* Unwinding that gives every stacked hash the height base + 1. *)
Unwind_FlatHeights(map, stack, base_height) ==
    LET n == Len(stack) - 1 IN
    [x \in DOMAIN map |->
        IF \E i \in 1 .. n : stack[i] = x
        THEN [map[x] EXCEPT !.height = Known(base_height + 1)]
        ELSE map[x]]

(* Unwinding that forgets stack.pop(): the base block is renumbered too. *)
Unwind_NoPop(map, stack, base_height) ==
    LET n == Len(stack) IN
    [x \in DOMAIN map |->
        IF \E i \in 1 .. n : stack[i] = x
        THEN LET i == CHOOSE j \in 1 .. n : stack[j] = x
             IN [map[x] EXCEPT !.height = Known(base_height + (n - i + 1))]
        ELSE map[x]]

(* Phase 2: pop the base, then assign base+1, base+2, ... from the oldest *)
(* stacked hash to the newest.                                            *)
Unwind(map, stack, base_height) ==
    LET n == Len(stack) - 1 IN
    [x \in DOMAIN map |->
        IF \E i \in 1 .. n : stack[i] = x
        THEN LET i == CHOOSE j \in 1 .. n : stack[j] = x
             IN [map[x] EXCEPT !.height = Known(base_height + (n - i + 1))]
        ELSE map[x]]

(* The whole function: [map |-> the map after the call, ret |-> result]. *)
get_block_height(start_hash, blocks_map) ==
    IF start_hash \in DOMAIN blocks_map
       /\ blocks_map[start_hash].height.tag \in {"Known", "Orphaned"}
    THEN [map |-> blocks_map, ret |-> blocks_map[start_hash].height]
    ELSE LET w == WalkBack(start_hash, <<>>, blocks_map) IN
         IF w.kind = "orphaned"
         THEN [map |-> w.map, ret |-> Orphaned]
         ELSE LET base == blocks_map[w.stack[Len(w.stack)]].height.h
                  n == Len(w.stack) - 1
              IN [map |-> Unwind(blocks_map, w.stack, base),
                  ret |-> Known(base + n)]

-----------------------------------------------------------------------------
(* build_index, main.rs:210-457 *)

NoCall == [hash |-> ZeroHash, before |-> NotYetKnown, ret |-> NotYetKnown,
           mutated |-> FALSE]

(* The containers on disk: any set of blocks, each naming a prev-hash.   *)
(* Hashes are numbered so that a block's prev-hash is smaller than its   *)
(* own (a hash commits to its prev-hash, so the links have no cycle); a  *)
(* prev-hash may be the zero hash or a hash that is in no container.     *)
HeaderSets ==
    UNION { { p \in [d -> 0 .. MaxBlocks - 1] : \A x \in d : p[x] < x } :
            d \in SUBSET Hashes }

(* What the user types when asked whether to overwrite the index file: *)
(* a line that starts with y, any other line, or a failed read.         *)
Answers == {"yes", "other", "unreadable"}

(* main.rs:213-246: when blockchain.idx exists the user is asked and     *)
(* anything but a y-answer ends the run with Ok and nothing done; then   *)
(* xor.dat is read (load_xor_key) and the blocks directory is listed.    *)
BuildStart(index_exists, answer, xor_key_ok, blocks_dir_ok) ==
    /\ UNCHANGED notBuildVars
    /\ bpc = "start"
    /\ IF index_exists /\ answer = "unreadable"
       THEN bpc' = "error" /\ berr' = "stdin"
       ELSE IF index_exists /\ answer # "yes"
       THEN bpc' = "cancelled" /\ berr' = berr
       ELSE IF ~xor_key_ok
       THEN bpc' = "error" /\ berr' = "xor_key"
       ELSE IF ~blocks_dir_ok
       THEN bpc' = "error" /\ berr' = "read_dir"
       ELSE bpc' = "scan" /\ berr' = berr
    /\ UNCHANGED <<headers, scanned, blocks_by_hash, genesis_hash, pending,
                   last_call, tip_hash, block_index, current_hash,
                   current_height, saved>>

(* main.rs:254 and 257: a container that cannot be opened, or a record   *)
(* on which read_next_header returns Err, ends the run with that error.  *)
ScanFails ==
    /\ UNCHANGED notBuildVars
    /\ bpc = "scan"
    /\ bpc' = "error"
    /\ berr' = "read_header"
    /\ UNCHANGED <<headers, scanned, blocks_by_hash, genesis_hash, pending,
                   last_call, tip_hash, block_index, current_hash,
                   current_height, saved>>

(* A scan that keeps the first zero-prev block it meets as the genesis. *)
ScanHeader_KeepsFirst(x) ==
    /\ UNCHANGED notBuildVars
    /\ bpc = "scan"
    /\ x \in DOMAIN headers \ scanned
    /\ scanned' = scanned \cup {x}
    /\ blocks_by_hash' =
          [k \in DOMAIN blocks_by_hash \cup {x} |->
              IF k = x THEN [prev_hash |-> headers[x], height |-> NotYetKnown]
              ELSE blocks_by_hash[k]]
    /\ genesis_hash' = IF headers[x] = ZeroHash /\ genesis_hash = {}
                       THEN {x} ELSE genesis_hash
    /\ UNCHANGED <<headers, pending, last_call, tip_hash, block_index,
                   current_hash, current_height, saved, bpc, berr>>

(* One iteration of the header scan (main.rs:257-273): the next record, *)
(* in file order, is any block not yet read.                            *)
(* read_next_header on a record whose size field is below 80, in a      *)
(* build with overflow checks: `block_size - 80` (block_parser.rs:114)  *)
(* panics.  The build without them goes on with the header it read.      *)
ScanPanics ==
    /\ UNCHANGED notBuildVars
    /\ bpc = "scan"
    /\ bpc' = "panic"
    /\ berr' = "subtract_overflow"
    /\ UNCHANGED <<headers, scanned, blocks_by_hash, genesis_hash, pending,
                   last_call, tip_hash, block_index, current_hash,
                   current_height, saved>>

ScanHeader(x) ==
    /\ UNCHANGED notBuildVars
    /\ bpc = "scan"
    /\ x \in DOMAIN headers \ scanned
    /\ scanned' = scanned \cup {x}
    /\ blocks_by_hash' =
          [k \in DOMAIN blocks_by_hash \cup {x} |->
              IF k = x THEN [prev_hash |-> headers[x], height |-> NotYetKnown]
              ELSE blocks_by_hash[k]]
    /\ genesis_hash' = IF headers[x] = ZeroHash THEN {x} ELSE genesis_hash
    /\ UNCHANGED <<headers, pending, last_call, tip_hash, block_index,
                   current_hash, current_height, saved, bpc, berr>>

(* main.rs:280-290 and 370: the genesis check after the last container. *)
SetGenesis ==
    /\ UNCHANGED notBuildVars
    /\ bpc = "scan"
    /\ scanned = DOMAIN headers
    /\ IF genesis_hash = {}
       THEN /\ bpc' = "error"
            /\ berr' = "genesis_not_found"
            /\ UNCHANGED <<blocks_by_hash, pending>>
       ELSE /\ blocks_by_hash' =
                  [k \in DOMAIN blocks_by_hash |->
                      IF k \in genesis_hash
                      THEN [blocks_by_hash[k] EXCEPT !.height = Known(0)]
                      ELSE blocks_by_hash[k]]
            /\ pending' = DOMAIN blocks_by_hash
            /\ bpc' = "resolve"
            /\ berr' = berr
    /\ UNCHANGED <<headers, scanned, genesis_hash, last_call, tip_hash,
                   block_index, current_hash, current_height, saved>>

(* One iteration of main.rs:371-373; all_hashes is in HashMap order,    *)
(* which is any order.                                                  *)
ResolveHeight(x) ==
    /\ UNCHANGED notBuildVars
    /\ bpc = "resolve"
    /\ x \in pending
    /\ LET r == get_block_height(x, blocks_by_hash) IN
         /\ blocks_by_hash' = r.map
         /\ last_call' = [hash |-> x, before |-> blocks_by_hash[x].height,
                          ret |-> r.ret,
                          mutated |-> r.map # blocks_by_hash]
    /\ pending' = pending \ {x}
    /\ UNCHANGED <<headers, scanned, genesis_hash, tip_hash, block_index,
                   current_hash, current_height, saved, bpc, berr>>

(* main.rs:376-381 *)
KnownHeights(map) == { map[x].height.h : x \in { y \in DOMAIN map : IsKnown(map[y].height) } }

MaxOf(S) == CHOOSE m \in S : \A n \in S : n <= m

(* Tip candidates cut down to one of them: a silently chosen tip. *)
TipBlocks_PickOne(map) ==
    LET all == { x \in DOMAIN map : IsKnown(map[x].height)
                          /\ map[x].height.h = MaxOf(KnownHeights(map)) }
    IN {CHOOSE x \in all : TRUE}

(* main.rs:385-392 *)
TipBlocks(map) ==
    { x \in DOMAIN map : IsKnown(map[x].height)
                          /\ map[x].height.h = MaxOf(KnownHeights(map)) }

(* main.rs:375-419: tip selection. *)
SelectTip ==
    /\ UNCHANGED notBuildVars
    /\ bpc = "resolve"
    /\ pending = {}
    /\ IF KnownHeights(blocks_by_hash) = {}
       THEN /\ bpc' = "error"
            /\ berr' = "no_known_heights"
            /\ UNCHANGED <<tip_hash, current_hash, current_height>>
       ELSE IF Cardinality(TipBlocks(blocks_by_hash)) = 1
       THEN LET tip == CHOOSE x \in TipBlocks(blocks_by_hash) : TRUE IN
            /\ tip_hash' = {tip}
            /\ current_hash' = tip
            /\ current_height' = blocks_by_hash[tip].height.h
            /\ bpc' = "linearize"
            /\ berr' = berr
       ELSE /\ bpc' = "error"
            /\ berr' = "fork_at_tip"
            /\ UNCHANGED <<tip_hash, current_hash, current_height>>
    /\ UNCHANGED <<headers, scanned, blocks_by_hash, genesis_hash, pending,
                   last_call, block_index, saved>>

(* A backward loop that writes the index file after every entry. *)
LinearizeStep_SavesEachStep ==
    /\ UNCHANGED notBuildVars
    /\ bpc = "linearize"
    /\ IF current_hash \in DOMAIN blocks_by_hash
       THEN /\ block_index' = add_block(block_index, current_height, current_hash)
            /\ saved' = {block_index'}
            /\ IF blocks_by_hash[current_hash].prev_hash = ZeroHash
               THEN /\ bpc' = "save"
                    /\ UNCHANGED <<current_hash, current_height>>
               ELSE /\ current_hash' = blocks_by_hash[current_hash].prev_hash
                    /\ current_height' = current_height - 1
                    /\ bpc' = bpc
            /\ berr' = berr
       ELSE /\ bpc' = "error"
            /\ berr' = "chain_broken"
            /\ UNCHANGED <<block_index, current_hash, current_height, saved>>
    /\ UNCHANGED <<headers, scanned, blocks_by_hash, genesis_hash, pending,
                   last_call, tip_hash>>

(* One iteration of the backward loop, main.rs:422-448. *)
LinearizeStep ==
    /\ UNCHANGED notBuildVars
    /\ bpc = "linearize"
    /\ IF current_hash \in DOMAIN blocks_by_hash
       THEN /\ block_index' = add_block(block_index, current_height, current_hash)
            /\ IF blocks_by_hash[current_hash].prev_hash = ZeroHash
               THEN /\ bpc' = "save"
                    /\ UNCHANGED <<current_hash, current_height>>
               ELSE IF current_height = 0
               THEN \* u32 underflow of `current_height -= 1`: the build
                    \* with overflow checks panics here.
                    /\ bpc' = "panic"
                    /\ UNCHANGED <<current_hash, current_height>>
               ELSE /\ current_hash' = blocks_by_hash[current_hash].prev_hash
                    /\ current_height' = current_height - 1
                    /\ bpc' = bpc
            /\ berr' = berr
       ELSE /\ bpc' = "error"
            /\ berr' = "chain_broken"
            /\ UNCHANGED <<block_index, current_hash, current_height>>
    /\ UNCHANGED <<headers, scanned, blocks_by_hash, genesis_hash, pending,
                   last_call, tip_hash, saved>>

(* save_to_file, index.rs:42-47: the index is stored; or File::create or *)
(* a write fails and the error is returned; or the bytes still in the    *)
(* BufWriter when it is dropped cannot be written, which nobody is told. *)
(* saved holds the indexes stored: a file that was created and not       *)
(* written to the end holds none.                                        *)
SaveOutcomes == {"stored", "failed", "lost"}

(* main.rs:450-456 *)
SaveIndex(outcome) ==
    /\ UNCHANGED notBuildVars
    /\ bpc = "save"
    /\ IF outcome = "stored"
       THEN saved' = {block_index} /\ bpc' = "done" /\ berr' = berr
       ELSE IF outcome = "failed"
       THEN saved' = saved /\ bpc' = "error" /\ berr' = "save"
       ELSE saved' = saved /\ bpc' = "done" /\ berr' = berr
    /\ UNCHANGED <<headers, scanned, blocks_by_hash, genesis_hash, pending,
                   last_call, tip_hash, block_index, current_hash,
                   current_height>>

BuildNext ==
    \/ \E index_exists, xor_key_ok, blocks_dir_ok \in BOOLEAN, answer \in Answers :
          BuildStart(index_exists, answer, xor_key_ok, blocks_dir_ok)
    \/ \E x \in Hashes : ScanHeader(x)
    \/ ScanFails
    \/ ScanPanics
    \/ SetGenesis
    \/ \E x \in Hashes : ResolveHeight(x)
    \/ SelectTip
    \/ LinearizeStep
    \/ \E outcome \in SaveOutcomes : SaveIndex(outcome)

-----------------------------------------------------------------------------
(* u64 amounts.  A u64 is kept as four 16-bit limbs, least significant   *)
(* first, so that sums and shifts keep their width.                      *)

LimbBase == 2 ^ 16

U64Zero == <<0, 0, 0, 0>>

(* The u64 of a number below 2^31. *)
U64Of(n) == <<n % LimbBase, n \div LimbBase, 0, 0>>

(* a + b at limb i with the carry so far: [carry, limbs]. *)
RECURSIVE AddLimbs(_, _, _, _)
AddLimbs(a, b, i, carry) ==
    IF i > Len(a) THEN [carry |-> carry, limbs |-> <<>>]
    ELSE LET t == a[i] + b[i] + carry
             rest == AddLimbs(a, b, i + 1, t \div LimbBase)
         IN [carry |-> rest.carry, limbs |-> <<t % LimbBase>> \o rest.limbs]

(* u64 addition: the wrapped sum and whether it overflowed. *)
U64Add(a, b) ==
    LET r == AddLimbs(a, b, 1, 0) IN
    [overflow |-> r.carry # 0, value |-> r.limbs]

(* a - b at limb i with the borrow so far (a >= b). *)
RECURSIVE SubLimbs(_, _, _, _)
SubLimbs(a, b, i, borrow) ==
    IF i > Len(a) THEN <<>>
    ELSE LET t == a[i] - b[i] - borrow IN
         IF t < 0 THEN <<t + LimbBase>> \o SubLimbs(a, b, i + 1, 1)
         ELSE <<t>> \o SubLimbs(a, b, i + 1, 0)

U64Sub(a, b) == SubLimbs(a, b, 1, 0)

(* a < b, compared from the most significant limb down. *)
RECURSIVE LessFrom(_, _, _)
LessFrom(a, b, i) ==
    IF i = 0 THEN FALSE
    ELSE IF a[i] # b[i] THEN a[i] < b[i]
    ELSE LessFrom(a, b, i - 1)

U64Less(a, b) == LessFrom(a, b, Len(a))
U64Geq(a, b) == ~U64Less(a, b)

(* a * m for a multiplier m below 2^15, at limb i: the wrapped product. *)
RECURSIVE MulLimbs(_, _, _, _)
MulLimbs(a, m, i, carry) ==
    IF i > Len(a) THEN <<>>
    ELSE LET t == a[i] * m + carry IN
         <<t % LimbBase>> \o MulLimbs(a, m, i + 1, t \div LimbBase)

U64MulSmall(a, m) == MulLimbs(a, m, 1, 0)

(* a >> 1 *)
U64Shr1(a) ==
    << (a[1] \div 2) + (a[2] % 2) * (LimbBase \div 2),
       (a[2] \div 2) + (a[3] % 2) * (LimbBase \div 2),
       (a[3] \div 2) + (a[4] % 2) * (LimbBase \div 2),
       a[4] \div 2 >>

(* a >> k, for k < 64 *)
RECURSIVE U64Shr(_, _)
U64Shr(a, k) == IF k = 0 THEN a ELSE U64Shr(U64Shr1(a), k - 1)

-----------------------------------------------------------------------------
(* a XOR b on n bits. *)
RECURSIVE XorBits(_, _, _)
XorBits(a, b, n) ==
    IF n = 0 THEN 0
    ELSE ((a + b) % 2) + 2 * XorBits(a \div 2, b \div 2, n - 1)

U64Xor(a, b) ==
    <<XorBits(a[1], b[1], 16), XorBits(a[2], b[2], 16),
      XorBits(a[3], b[3], 16), XorBits(a[4], b[4], 16)>>

(* u64::wrapping_add *)
U64WrappingAdd(a, b) == U64Add(a, b).value

(* u64::rotate_left(a, n), 0 < n < 64: by whole limbs, then by bits. *)
rotate_left(a, n) ==
    LET k == n \div 16
        r == n % 16
        w == <<a[((4 - k) % 4) + 1], a[((5 - k) % 4) + 1],
               a[((6 - k) % 4) + 1], a[((7 - k) % 4) + 1]>>
        part(hi, lo) == ((hi * (2 ^ r)) % LimbBase) + (lo \div (2 ^ (16 - r)))
    IN IF r = 0 THEN w
       ELSE <<part(w[1], w[4]), part(w[2], w[1]),
              part(w[3], w[2]), part(w[4], w[3])>>

-----------------------------------------------------------------------------
(* std::collections::hash_map::DefaultHasher: SipHash-1-3 with the keys  *)
(* (0, 0).  The state is <<v0, v1, v2, v3>>; the input is taken in words *)
(* of 8 bytes, little-endian.                                            *)

(* "somepseu", "dorandom", "lygenera", "tedbytes" *)
SipInit ==
    <<<<25973, 28787, 28005, 29551>>,
      <<28525, 28260, 29281, 25711>>,
      <<29281, 28261, 26469, 27769>>,
      <<25971, 31092, 25698, 29797>>>>

(* One round (c_rounds and d_rounds are made of it), as the statements   *)
(* of the compress macro in their order: <<"add", i, j>> is              *)
(* v_i = v_i.wrapping_add(v_j), <<"rotl", i, n>> is                      *)
(* v_i = v_i.rotate_left(n), <<"xor", i, j>> is v_i ^= v_j, with v0..v3  *)
(* at 1..4.                                                              *)
SipRoundOps ==
    << <<"add", 1, 2>>, <<"rotl", 2, 13>>, <<"xor", 2, 1>>, <<"rotl", 1, 32>>,
       <<"add", 3, 4>>, <<"rotl", 4, 16>>, <<"xor", 4, 3>>,
       <<"add", 1, 4>>, <<"rotl", 4, 21>>, <<"xor", 4, 1>>,
       <<"add", 3, 2>>, <<"rotl", 2, 17>>, <<"xor", 2, 3>>, <<"rotl", 3, 32>> >>

(* The one element of a set of one element. *)
Only(S) == CHOOSE x \in S : TRUE

(* One statement on the state v. *)
SipOp(v, op) ==
    [v EXCEPT ![op[2]] =
        CASE op[1] = "add"  -> U64WrappingAdd(v[op[2]], v[op[3]])
          [] op[1] = "rotl" -> rotate_left(v[op[2]], op[3])
          [] op[1] = "xor"  -> U64Xor(v[op[2]], v[op[3]])]

(* The statements ops one after the other, each on the state the one     *)
(* before it left.                                                       *)
RECURSIVE SipApply(_, _)
SipApply(v, ops) ==
    IF ops = <<>> THEN v
    ELSE Only({ SipApply(w, rest) :
                  w \in { SipOp(u, ops[1]) : u \in {v} },
                  rest \in {Tail(ops)} })

SipRound(v) == SipApply(v, SipRoundOps)

(* n rounds, each on the finished state of the one before. *)
RECURSIVE SipRounds(_, _)
SipRounds(v, n) ==
    IF n = 0 THEN v
    ELSE Only({ SipRounds(w, m) : w \in {SipRound(v)}, m \in {n - 1} })

(* v_i ^= m *)
SipXor(v, i, m) == [v EXCEPT ![i] = U64Xor(v[i], m)]

(* One word of input: v3 ^= m; c_rounds = 1 round; v0 ^= m. *)
SipCompress(v, m) ==
    Only({ Only({ SipXor(r, 1, w) : r \in {SipRounds(SipXor(u, 4, w), 1)} }) :
             u \in {v}, w \in {m} })

RECURSIVE SipWrite(_, _)
SipWrite(v, words) ==
    IF words = <<>> THEN v
    ELSE Only({ SipWrite(w, rest) :
                  w \in {SipCompress(v, words[1])},
                  rest \in {Tail(words)} })

(* Hasher::finish after `words` whole words and a tail of fewer than 8   *)
(* bytes: the last word is the tail with the length of the input (mod    *)
(* 256) in its top byte; then v2 ^= 0xff, d_rounds = 3 rounds, and the   *)
(* XOR of the state.                                                     *)
SipFinish(words, tail, length) ==
    LET last == <<tail[1], tail[2], tail[3], tail[4] + ((length % 256) * 256)>>
    IN Only({ U64Xor(U64Xor(f[1], f[2]), U64Xor(f[3], f[4])) :
                f \in { SipRounds(SipXor(v, 3, <<255, 0, 0, 0>>), 3) :
                          v \in { SipWrite(SipInit, all) :
                                    all \in {Append(words, last)} } } })

-----------------------------------------------------------------------------
(* UtxoSet, main.rs:153-208 *)

(* A txid is 32 bytes.  The txids here are the ones whose last 24 bytes *)
(* are zero: a txid is its first 8 bytes as a little-endian u64.         *)
Txid(n) == U64Of(n)
NoTxid == U64Zero

(* Two txids whose output 0 has the same key: 23e121e2e92b107f 00.. and  *)
(* 44bd52beff1c529e 00.. (bytes in the order they are hashed).           *)
CollidingA == <<57635, 57889, 11241, 32528>>
CollidingB == <<48452, 48722, 7423, 40530>>

(* What Hash::hash(txid, ..) and Hash::hash(&output_index, ..) write:    *)
(* the length of the byte array as a usize, its 32 bytes, then the 4     *)
(* bytes of the index, 44 bytes in all.                                  *)
HashedWords(txid) == <<U64Of(32), txid, U64Zero, U64Zero, U64Zero>>

RECURSIVE KeyDigest(_, _, _)

(* The txids that occur below, and their digests for the output indexes  *)
(* that occur, computed once.                                            *)
KnownTxids == {CollidingA, CollidingB} \cup { Txid(n) : n \in 1 .. 8 }
KnownKeys ==
    { <<txid, output_index, KeyDigest(txid, output_index, FALSE)>> :
        txid \in KnownTxids, output_index \in 0 .. MaxOutputs }

(* The digest of (txid, output_index) that hasher.finish() returns; with *)
(* `known` it is taken from KnownKeys when it is there.                  *)
KeyDigest(txid, output_index, known) ==
    Only({ IF hit = {}
           THEN SipFinish(HashedWords(txid), U64Of(output_index), 44)
           ELSE Only(hit)[3] :
             hit \in { IF known
                       THEN { k \in KnownKeys :
                                k[1] = txid /\ k[2] = output_index }
                       ELSE {} } })

(* utxo_key, main.rs:153-158 *)
utxo_key(txid, output_index) == KeyDigest(txid, output_index, TRUE)

(* The arguments of the calls drawn: the colliding txids and NumTxids - 2 *)
(* others, the first and the last output index, the smallest and the     *)
(* largest value.                                                        *)
Txids == {CollidingA, CollidingB} \cup { Txid(n) : n \in 1 .. NumTxids - 2 }
Vouts == {0, MaxOutputs - 1}
Values == {1, MaxValue}

NoValues == [k \in {} |-> 0]

(* UtxoSet::new *)
UtxoSetNew == [active |-> NoValues, to_remove |-> {}]

(* add_output that overwrites on every collision. *)
add_output_NoCollisionCheck(u, txid, output_index, value_sats, block_height) ==
    LET key == utxo_key(txid, output_index) IN
    [ok |-> TRUE,
     set |-> [u EXCEPT !.active =
                  [k \in DOMAIN u.active \cup {key} |->
                      IF k = key THEN value_sats ELSE u.active[k]]]]

(* add_output: [ok |-> Ok or Err, set |-> the tracker after the call]. *)
add_output(u, txid, output_index, value_sats, block_height) ==
    LET key == utxo_key(txid, output_index) IN
    IF key \in DOMAIN u.active
       /\ block_height # DupCoinbaseHeightA
       /\ block_height # DupCoinbaseHeightB
    THEN [ok |-> FALSE, set |-> u]
    ELSE [ok |-> TRUE,
          set |-> [u EXCEPT !.active =
                      [k \in DOMAIN u.active \cup {key} |->
                          IF k = key THEN value_sats ELSE u.active[k]]]]

(* mark_for_removal that removes the entry at once. *)
mark_for_removal_RemovesNow(u, txid, output_index) ==
    LET key == utxo_key(txid, output_index) IN
    [active |-> [k \in DOMAIN u.active \ {key} |-> u.active[k]],
     to_remove |-> u.to_remove \cup {key}]

(* mark_for_removal, main.rs:188-191 *)
mark_for_removal(u, txid, output_index) ==
    [u EXCEPT !.to_remove = u.to_remove \cup {utxo_key(txid, output_index)}]

(* get_value: Option<u64> as a set of size <= 1. *)
get_value(u, txid, output_index) ==
    LET key == utxo_key(txid, output_index) IN
    IF key \in DOMAIN u.active THEN {u.active[key]} ELSE {}

(* commit_removals that clears the staging set and removes nothing. *)
commit_removals_OnlyClears(u) ==
    [active |-> u.active, to_remove |-> {}]

(* commit_removals *)
commit_removals(u) ==
    [active |-> [k \in DOMAIN u.active \ u.to_remove |-> u.active[k]],
     to_remove |-> {}]

(* len *)
utxo_len(u) == Cardinality(DOMAIN u.active)

(* Heights a caller may pass: an ordinary one and the two exempt ones. *)
CallHeights == {0, DupCoinbaseHeightA, DupCoinbaseHeightB}

NoUtxoCall == [op |-> "none", txid |-> NoTxid, vout |-> 0, value |-> 0,
               height |-> 0, present |-> FALSE, ok |-> TRUE]

(* build_index at entry, main.rs:210: nothing asked, nothing read yet. *)
BuildInit ==
    /\ tracker = UtxoSetNew
    /\ ulast = NoUtxoCall
    /\ last_mark = {}
    /\ x_in = [utxo |-> FALSE, max_height |-> {}, columns |-> <<>>,
               tip_height |-> 0]
    /\ xpc = "idle"
    /\ x_height = 0
    /\ cur_block = <<>>
    /\ seen_txids = {}
    /\ x_chain = <<>>
    /\ utxo_set = {}
    /\ xlog = <<>>
    /\ builders = <<>>
    /\ out_file = {}
    /\ xerr = ""
    /\ PureIdle
    /\ ReaderIdle
    /\ IterIdle
    /\ headers \in HeaderSets
    /\ scanned = {}
    /\ blocks_by_hash = EmptyMap
    /\ genesis_hash = {}
    /\ pending = {}
    /\ last_call = NoCall
    /\ tip_hash = {}
    /\ block_index = BlockIndexNew
    /\ current_hash = ZeroHash
    /\ current_height = 0
    /\ saved = {}
    /\ bpc = "start"
    /\ berr = ""

(* A fresh tracker, no call made. *)
UtxoInit ==
    /\ tracker = UtxoSetNew
    /\ ulast = NoUtxoCall
    /\ last_mark = {}
    /\ headers = EmptyMap
    /\ scanned = {}
    /\ blocks_by_hash = EmptyMap
    /\ genesis_hash = {}
    /\ pending = {}
    /\ last_call = NoCall
    /\ tip_hash = {}
    /\ block_index = BlockIndexNew
    /\ current_hash = ZeroHash
    /\ current_height = 0
    /\ saved = {}
    /\ bpc = "idle"
    /\ berr = ""
    /\ x_in = [utxo |-> FALSE, max_height |-> {}, columns |-> <<>>,
               tip_height |-> 0]
    /\ xpc = "idle"
    /\ x_height = 0
    /\ cur_block = <<>>
    /\ seen_txids = {}
    /\ x_chain = <<>>
    /\ utxo_set = {}
    /\ xlog = <<>>
    /\ builders = <<>>
    /\ out_file = {}
    /\ xerr = ""
    /\ PureIdle
    /\ ReaderIdle
    /\ IterIdle

AddOutput(txid, vout, value, height) ==
    LET r == add_output(tracker, txid, vout, value, height) IN
    /\ tracker' = r.set
    /\ ulast' = [op |-> "add_output", txid |-> txid, vout |-> vout,
                 value |-> value, height |-> height,
                 present |-> utxo_key(txid, vout) \in DOMAIN tracker.active,
                 ok |-> r.ok]
    /\ last_mark' = {}
    /\ UNCHANGED notUtxoVars

MarkForRemoval(txid, vout) ==
    /\ tracker' = mark_for_removal(tracker, txid, vout)
    /\ ulast' = [NoUtxoCall EXCEPT !.op = "mark_for_removal",
                                   !.txid = txid, !.vout = vout]
    /\ last_mark' = {<<txid, vout, get_value(tracker, txid, vout) # {}>>}
    /\ UNCHANGED notUtxoVars

GetValue(txid, vout) ==
    /\ tracker' = tracker
    /\ ulast' = [NoUtxoCall EXCEPT !.op = "get_value",
                                   !.txid = txid, !.vout = vout,
                                   !.ok = get_value(tracker, txid, vout) # {}]
    /\ last_mark' = {}
    /\ UNCHANGED notUtxoVars

CommitRemovals ==
    /\ tracker' = commit_removals(tracker)
    /\ ulast' = [NoUtxoCall EXCEPT !.op = "commit_removals"]
    /\ last_mark' = IF ulast.op = "mark_for_removal" THEN last_mark ELSE {}
    /\ UNCHANGED notUtxoVars

(* The callers drawn keep at most MaxActive outputs in the active set   *)
(* and at most MaxStaged keys staged.                                   *)
UtxoNext ==
    \/ \E t \in Txids, i \in Vouts, v \in Values, h \in CallHeights :
          /\ \/ utxo_key(t, i) \in DOMAIN tracker.active
             \/ utxo_len(tracker) < MaxActive
          /\ AddOutput(t, i, v, h)
    \/ \E t \in Txids, i \in Vouts :
          /\ \/ utxo_key(t, i) \in tracker.to_remove
             \/ Cardinality(tracker.to_remove) < MaxStaged
          /\ MarkForRemoval(t, i)
    \/ \E t \in Txids, i \in Vouts : GetValue(t, i)
    \/ CommitRemovals

-----------------------------------------------------------------------------
(* Blocks an export reads.  A transaction is [txid, inputs, outputs,      *)
(* weight]; an input is its previous_output [txid, vout]; an output is    *)
(* [value, op_return].                                                    *)

(* An output: value, is_op_return() of its script, and the script's     *)
(* length in bytes.                                                      *)
OutScript(value, op_return, script_len) ==
    [value |-> value, op_return |-> op_return, script_len |-> script_len]

(* An output with the shortest script of its kind: the OP_RETURN opcode  *)
(* alone, or no script.                                                  *)
Out(value, op_return) == OutScript(value, op_return, IF op_return THEN 1 ELSE 0)
OutPoint(txid, vout) == [txid |-> txid, vout |-> vout]
Tx(txid, inputs, outputs, weight) ==
    [txid |-> txid, inputs |-> inputs, outputs |-> outputs, weight |-> weight]

(* Coinbase transactions (first in a block; their input is the null      *)
(* outpoint, which the export never looks at).  CoinbaseB carries an    *)
(* OP_RETURN script longer than 40 bytes and not longer than 80.         *)
CoinbaseA == Tx(CollidingA, <<>>, <<Out(2, FALSE)>>, 4)
CoinbaseB == Tx(Txid(2), <<>>, <<Out(2, FALSE), OutScript(0, TRUE, 45)>>, 4)
Coinbases == {CoinbaseA, CoinbaseB}

(* Spending transactions: SpendA spends CoinbaseA's output (fee 1),      *)
(* SpendB spends SpendA's output (fee 0, twice the size), SpendC spends  *)
(* CoinbaseB's output and pays out more than it takes in.                *)
SpendA == Tx(Txid(3), <<OutPoint(CollidingA, 0)>>, <<Out(1, FALSE)>>, 4)
SpendB == Tx(Txid(4), <<OutPoint(Txid(3), 0)>>, <<Out(1, FALSE)>>, 8)
SpendC == Tx(CollidingB, <<OutPoint(Txid(2), 0)>>, <<Out(3, FALSE)>>, 4)
Spenders == {SpendA, SpendB, SpendC}

(* Sequences of distinct elements of S of length at most n. *)
RECURSIVE DistinctSeqs(_, _)
DistinctSeqs(S, n) ==
    IF n = 0 THEN {<<>>}
    ELSE {<<>>} \cup UNION { { <<x>> \o t : t \in DistinctSeqs(S \ {x}, n - 1) } :
                             x \in S }

(* The txdata a container may hold at the next height: a coinbase, then  *)
(* spending transactions that are in no earlier block (a txid names one  *)
(* transaction).  A coinbase may repeat.                                 *)
BlockChoices(seen) ==
    { <<c>> \o t : c \in Coinbases,
                   t \in DistinctSeqs({ x \in Spenders : x.txid \notin seen },
                                      MaxTxPerBlock - 1) }

TxidsOf(block) == { block[i].txid : i \in 1 .. Len(block) }

-----------------------------------------------------------------------------
(* Subsidy and fees, main.rs:113-151 *)

\* main.rs:115
HalvingInterval == 210000

\* main.rs:121
LastHalving == 33

\* main.rs:118  50 * 100_000_000u64
initial_reward_sats == U64MulSmall(U64Of(100000000), 50)

(* get_block_reward that stops paying one halving early. *)
get_block_reward_StopsEarly(height) ==
    LET halvings == height \div HalvingInterval IN
    IF halvings >= LastHalving - 1 THEN U64Zero
    ELSE U64Shr(initial_reward_sats, halvings)

(* get_block_reward, main.rs:113-128, in satoshis. *)
get_block_reward(height) ==
    LET halvings == height \div HalvingInterval IN
    IF halvings >= LastHalving THEN U64Zero
    ELSE U64Shr(initial_reward_sats, halvings)

(* iter().sum() over u64 values: the wrapped sum and whether an        *)
(* addition overflowed.                                                  *)
RECURSIVE SumU64(_)
SumU64(values) ==
    IF values = <<>> THEN [overflow |-> FALSE, value |-> U64Zero]
    ELSE LET rest == SumU64(Tail(values))
             r == U64Add(values[1], rest.value)
         IN [overflow |-> rest.overflow \/ r.overflow, value |-> r.value]

(* calculate_block_fees that subtracts without comparing first. *)
calculate_block_fees_NoClamp(transactions, height, overflow_checks) ==
    IF transactions = <<>> THEN [panic |-> FALSE, value |-> U64Zero]
    ELSE LET s == SumU64(transactions[1].output) IN
         IF s.overflow /\ overflow_checks THEN [panic |-> TRUE, value |-> U64Zero]
         ELSE [panic |-> FALSE,
               value |-> U64Sub(s.value, get_block_reward(height))]

(* calculate_block_fees, main.rs:130-151.  `transactions` is a list of   *)
(* [output: list of u64 values]; `overflow_checks` is the build's        *)
(* setting: an overflowing sum panics with it and wraps without it.      *)
calculate_block_fees(transactions, height, overflow_checks) ==
    IF transactions = <<>> THEN [panic |-> FALSE, value |-> U64Zero]
    ELSE LET coinbase == transactions[1]
             s == SumU64(coinbase.output)
             block_reward == get_block_reward(height)
         IN IF s.overflow /\ overflow_checks
            THEN [panic |-> TRUE, value |-> U64Zero]
            ELSE IF U64Geq(s.value, block_reward)
            THEN [panic |-> FALSE, value |-> U64Sub(s.value, block_reward)]
            ELSE [panic |-> FALSE, value |-> U64Zero]

-----------------------------------------------------------------------------
(* Column specifications, main.rs:506-716 *)

(* A column argument "name" or "name[q1,q2,...]": the text before the   *)
(* first '[', whether there is a '[', the numbers between the brackets,  *)
(* whether the argument ends with ']' and whether every item between the *)
(* brackets parses as a number.                                          *)
Col(base, bracket, quantiles) ==
    [base |-> base, bracket |-> bracket, quantiles |-> quantiles,
     closed |-> TRUE, parsed |-> TRUE]

(* An argument with a '[' that is not of the form name[q1,q2,...]. *)
ColMalformed(base, quantiles, closed, parsed) ==
    [base |-> base, bracket |-> TRUE, quantiles |-> quantiles,
     closed |-> closed, parsed |-> parsed]

SingleColumns == {"height", "timestamp", "tx_count", "fee_avg", "block_size",
                  "utxo_size", "op_return_count", "op_return_bytes",
                  "op_return_gt40", "op_return_gt80"}
MultiColumns == {"tx_size", "fee_rates"}

(* parse_column_spec, main.rs:516-548: "" when the argument parses, else *)
(* the error.  Nothing between the brackets is one empty item, which     *)
(* does not parse.                                                       *)
parse_column_spec(c) ==
    IF c.bracket
    THEN IF ~c.closed THEN "missing_closing_bracket"
         ELSE IF ~c.parsed \/ c.quantiles = <<>>
         THEN "invalid_quantile_values"
         ELSE IF \E i \in 1 .. Len(c.quantiles) :
                    c.quantiles[i] < 0 \/ c.quantiles[i] > 100
         THEN "quantile_out_of_range"
         ELSE IF c.base \in MultiColumns THEN "" ELSE "unknown_multi_column"
    ELSE IF c.base \in SingleColumns THEN "" ELSE "unknown_column"

(* column_requires_utxo that knows fee_rates only. *)
column_requires_utxo_OnlyFeeRates(column_name) == column_name = "fee_rates"

(* column_requires_utxo, main.rs:631-636 *)
column_requires_utxo(column_name) == column_name \in {"fee_rates", "utxo_size"}

(* f64.  The f64 values of the program are finite, not negative (counts, *)
(* sizes, rates, positions, weights) and far from the ends of the        *)
(* exponent range, so a value is m * 2^e with m a natural number of at   *)
(* most F64Precision bits.  It is kept as [m, e] with m odd (0.0 is      *)
(* [<<>>, 0]), so that equal values are equal records.  A natural number *)
(* of any size is the sequence of its digits in base DigitBase, the      *)
(* least significant first and the last one not 0.                       *)

\* f64::MANTISSA_DIGITS
F64Precision == 53

\* The product of two digits is below 2^31.
DigitBits == 15
DigitBase == 2 ^ DigitBits

RECURSIVE DigitsOf(_)
DigitsOf(n) ==
    IF n = 0 THEN <<>>
    ELSE <<n % DigitBase>> \o DigitsOf(n \div DigitBase)

RECURSIVE NatOf(_)
NatOf(d) == IF d = <<>> THEN 0 ELSE d[1] + DigitBase * NatOf(Tail(d))

RECURSIVE Zeros(_)
Zeros(k) == IF k <= 0 THEN <<>> ELSE <<0>> \o Zeros(k - 1)

RECURSIVE Trim(_)
Trim(d) ==
    IF d = <<>> \/ d[Len(d)] # 0 THEN d ELSE Trim(SubSeq(d, 1, Len(d) - 1))

DigitAt(d, i) == IF i <= Len(d) THEN d[i] ELSE 0

RECURSIVE AddFrom(_, _, _, _)
AddFrom(a, b, i, carry) ==
    IF i > Len(a) /\ i > Len(b) THEN (IF carry = 0 THEN <<>> ELSE <<carry>>)
    ELSE Only({ <<t % DigitBase>> \o AddFrom(a, b, j, t \div DigitBase) :
                  t \in {DigitAt(a, i) + DigitAt(b, i) + carry},
                  j \in {i + 1} })

DigitsAdd(a, b) == AddFrom(a, b, 1, 0)

RECURSIVE SubFrom(_, _, _, _)
SubFrom(a, b, i, borrow) ==
    IF i > Len(a) THEN <<>>
    ELSE Only({ <<(t + DigitBase) % DigitBase>>
                \o SubFrom(a, b, j, IF t < 0 THEN 1 ELSE 0) :
                  t \in {a[i] - DigitAt(b, i) - borrow}, j \in {i + 1} })

(* a - b, for a >= b *)
DigitsSub(a, b) == Trim(SubFrom(a, b, 1, 0))

RECURSIVE LessAt(_, _, _)
LessAt(a, b, i) ==
    IF i = 0 THEN FALSE
    ELSE IF a[i] # b[i] THEN a[i] < b[i]
    ELSE LessAt(a, b, i - 1)

DigitsLess(a, b) ==
    IF Len(a) # Len(b) THEN Len(a) < Len(b) ELSE LessAt(a, b, Len(a))

RECURSIVE TimesFrom(_, _, _, _)
TimesFrom(a, digit, i, carry) ==
    IF i > Len(a) THEN (IF carry = 0 THEN <<>> ELSE <<carry>>)
    ELSE Only({ <<t % DigitBase>>
                \o TimesFrom(a, digit, j, t \div DigitBase) :
                  t \in {a[i] * digit + carry}, j \in {i + 1} })

(* a * digit *)
Times(a, digit) == Trim(TimesFrom(a, digit, 1, 0))

(* a * 2^k *)
ShiftLeft(a, k) ==
    IF a = <<>> THEN <<>>
    ELSE Zeros(k \div DigitBits) \o Times(a, 2 ^ (k % DigitBits))

RECURSIVE DigitsMul(_, _)
DigitsMul(a, b) ==
    IF a = <<>> \/ b = <<>> THEN <<>>
    ELSE DigitsAdd(Times(a, b[1]), ShiftLeft(DigitsMul(a, Tail(b)), DigitBits))

RECURSIVE Width(_)
Width(n) == IF n = 0 THEN 0 ELSE 1 + Width(n \div 2)

(* The number of bits of a *)
BitLen(a) ==
    IF a = <<>> THEN 0 ELSE DigitBits * (Len(a) - 1) + Width(a[Len(a)])

Pow2(k) == ShiftLeft(<<1>>, k)

RECURSIVE ShiftFrom(_, _, _)
ShiftFrom(a, r, j) ==
    IF j > Len(a) THEN <<>>
    ELSE <<(a[j] \div 2 ^ r)
           + (DigitAt(a, j + 1) % 2 ^ r) * 2 ^ (DigitBits - r)>>
         \o ShiftFrom(a, r, j + 1)

(* a \div 2^k *)
ShiftRight(a, k) == Trim(ShiftFrom(a, k % DigitBits, (k \div DigitBits) + 1))

(* a % 2^k *)
LowBits(a, k) ==
    IF k \div DigitBits >= Len(a) THEN a
    ELSE Trim(SubSeq(a, 1, k \div DigitBits)
              \o <<a[(k \div DigitBits) + 1] % 2 ^ (k % DigitBits)>>)

(* The largest digit q with b * q <= r, which is q or a little below. *)
RECURSIVE QuotDigit(_, _, _)
QuotDigit(r, b, q) ==
    IF DigitsLess(r, Times(b, q)) THEN QuotDigit(r, b, q - 1) ELSE q

(* The quotient digit judged from the two top digits of r and the top    *)
(* digit of b, which is DigitBase \div 2 at least: the digit, or up to   *)
(* two above it.                                                         *)
QuotGuess(r, b) ==
    Only({ IF guess < DigitBase THEN guess ELSE DigitBase - 1 :
             guess \in { (DigitAt(r, Len(b) + 1) * DigitBase
                           + DigitAt(r, Len(b))) \div b[Len(b)] } })

(* The long division of a by b from digit i of a down, rem left from the *)
(* digits above.                                                         *)
RECURSIVE DivFrom(_, _, _, _)
DivFrom(a, b, i, rem) ==
    IF i = 0 THEN [quot |-> <<>>, rem |-> rem]
    ELSE Only({ Only({
           Only({ [quot |-> Append(low.quot, q), rem |-> low.rem] :
                    low \in {DivFrom(a, b, i - 1, DigitsSub(r, Times(b, q)))} }) :
             q \in {QuotDigit(r, b, QuotGuess(r, b))} }) :
               r \in {Trim(<<a[i]>> \o rem)} })

(* [quot, rem] of a by b, for b # 0: both are first scaled to bring the  *)
(* top digit of b to DigitBase \div 2 at least.                          *)
DigitsDiv(a, b) ==
    Only({ Only({ [quot |-> Trim(d.quot), rem |-> ShiftRight(d.rem, k)] :
                    d \in {DivFrom(ShiftLeft(a, k), ShiftLeft(b, k),
                                   Len(ShiftLeft(a, k)), <<>>)} }) :
             k \in {DigitBits - Width(b[Len(b)])} })

(* The number of low zero bits of n > 0 *)
RECURSIVE LowZeros(_)
LowZeros(n) == IF n % 2 = 1 THEN 0 ELSE 1 + LowZeros(n \div 2)

(* m * 2^e, for m a natural number: the low zero bits of m are moved     *)
(* into e. *)
RECURSIVE F64(_, _)
F64(m, e) ==
    IF m = <<>> THEN [m |-> <<>>, e |-> 0]
    ELSE IF m[1] = 0 THEN F64(Tail(m), e + DigitBits)
    ELSE IF m[1] % 2 = 1 THEN [m |-> m, e |-> e]
    ELSE [m |-> ShiftRight(m, LowZeros(m[1])), e |-> e + LowZeros(m[1])]

(* m with its k low bits dropped, rounded to the nearest, a tie to even. *)
RoundedAt(m, k) ==
    Only({ IF DigitsLess(Pow2(k - 1), low)
              \/ (low = Pow2(k - 1) /\ ShiftRight(m, k)[1] % 2 = 1)
           THEN DigitsAdd(ShiftRight(m, k), <<1>>)
           ELSE ShiftRight(m, k) :
             low \in {LowBits(m, k)} })

(* m * 2^e rounded to an f64. *)
Round(m, e) ==
    Only({ Only({ IF k <= 0 THEN F64(digits, e)
                  ELSE F64(RoundedAt(digits, k), e + k) :
                    k \in {BitLen(digits) - F64Precision} }) :
             digits \in {m} })

F64Zero == [m |-> <<>>, e |-> 0]

(* n as f64, for n below 2^31 *)
F64Of(n) == F64(DigitsOf(n), 0)

MinExp(x, y) == IF x.e < y.e THEN x.e ELSE y.e

(* The mantissa of x at the exponent e <= x.e *)
Aligned(x, e) == ShiftLeft(x.m, x.e - e)

(* x < y *)
F64Less(x, y) ==
    IF y.m = <<>> THEN FALSE
    ELSE IF x.m = <<>> THEN TRUE
    ELSE DigitsLess(Aligned(x, MinExp(x, y)), Aligned(y, MinExp(x, y)))

(* x + y *)
F64Add(x, y) ==
    IF x.m = <<>> THEN y
    ELSE IF y.m = <<>> THEN x
    ELSE Round(DigitsAdd(Aligned(x, MinExp(x, y)), Aligned(y, MinExp(x, y))),
               MinExp(x, y))

(* x - y, for x >= y *)
F64Sub(x, y) ==
    IF y.m = <<>> THEN x
    ELSE Round(DigitsSub(Aligned(x, MinExp(x, y)), Aligned(y, MinExp(x, y))),
               MinExp(x, y))

(* x * y *)
F64Mul(x, y) == Round(DigitsMul(x.m, y.m), x.e + y.e)

(* x / y, for y # 0: the quotient of the mantissas to three bits more    *)
(* than the precision at least, and one more bit, set when a remainder   *)
(* is left.                                                              *)
F64Div(x, y) ==
    IF x.m = <<>> THEN F64Zero
    ELSE Only({ Only({ Round(DigitsAdd(Times(d.quot, 2),
                                       IF d.rem = <<>> THEN <<>> ELSE <<1>>),
                             x.e - y.e - s - 1) :
                         d \in {DigitsDiv(ShiftLeft(x.m, s), y.m)} }) :
                  s \in {F64Precision + 3 + BitLen(y.m) - BitLen(x.m)} })

(* x.floor() as usize *)
F64Floor(x) ==
    IF x.e >= 0 THEN NatOf(ShiftLeft(x.m, x.e))
    ELSE IF 0 - x.e >= BitLen(x.m) THEN 0
    ELSE NatOf(ShiftRight(x.m, 0 - x.e))

(* x.ceil() as usize *)
F64Ceil(x) == F64Floor(x) + (IF x.e >= 0 THEN 0 ELSE 1)

(* str::parse::<f64> of the decimal num / den, den a power of ten: the   *)
(* f64 nearest to it, which the rounded quotient is.                     *)
ParseF64(num, den) == F64Div(F64Of(num), F64Of(den))

(* weight as f64 / 4.0 *)
Vbytes(weight) == F64Div(F64Of(weight), F64Of(4))

(* n as f64 / (weight as f64 / 4.0), for weight > 0. *)
PerVbyte(n, weight) == F64Div(F64Of(n), Vbytes(weight))

(* Sum of the values of a sequence of outputs. *)
RECURSIVE SumOutputs(_)
SumOutputs(outputs) ==
    IF outputs = <<>> THEN 0
    ELSE outputs[1].value + SumOutputs(Tail(outputs))

(* Insert the f64 x into the ascending sequence s. *)
RECURSIVE InsertSorted(_, _)
InsertSorted(x, s) ==
    IF s = <<>> THEN <<x>>
    ELSE IF ~F64Less(s[1], x) THEN <<x>> \o s
    ELSE <<s[1]>> \o InsertSorted(x, Tail(s))

(* sort_by(partial_cmp) *)
RECURSIVE SortAscending(_)
SortAscending(s) ==
    IF s = <<>> THEN <<>> ELSE InsertSorted(s[1], SortAscending(Tail(s)))

(* The fee_rates extractor on one transaction: the input values looked   *)
(* up in the tracker.  [panic, value].                                   *)
RECURSIVE InputValue(_, _)
InputValue(u, inputs) ==
    IF inputs = <<>> THEN [panic |-> FALSE, value |-> 0]
    ELSE LET got == get_value(u, inputs[1].txid, inputs[1].vout)
             rest == InputValue(u, Tail(inputs))
         IN IF got = {} THEN [panic |-> TRUE, value |-> 0]
            ELSE [panic |-> rest.panic,
                  value |-> (CHOOSE v \in got : TRUE) + rest.value]

(* The fee_rates extractor, main.rs:650-688, on the transactions after   *)
(* the coinbase: [panic, data] with data unsorted.                       *)
RECURSIVE FeeRatesOf(_, _)
FeeRatesOf(u, txs) ==
    IF txs = <<>> THEN [panic |-> FALSE, data |-> <<>>]
    ELSE LET tx == txs[1]
             inp == InputValue(u, tx.inputs)
             output_value == SumOutputs(tx.outputs)
         IN IF inp.panic \/ inp.value < output_value
            THEN [panic |-> TRUE, data |-> <<>>]
            ELSE LET rest == FeeRatesOf(u, Tail(txs)) IN
                 [panic |-> rest.panic,
                  data |-> IF tx.weight > 0
                           THEN <<PerVbyte(inp.value - output_value, tx.weight)>>
                                \o rest.data
                           ELSE rest.data]

(* The tx_size extractor, main.rs:640-649 (unsorted). *)
TxSizesOf(txs) == [i \in 1 .. Len(txs) |-> Vbytes(txs[i].weight)]

(* A block as the extractors see it: header.time and txdata. *)
Block(time, txdata) == [header |-> [time |-> time], txdata |-> txdata]

(* The entry of the index for a height, as far as the export reads it. *)
Location(block_size) == [block_size |-> block_size]

(* A multi-valued extractor: [panic, data] with data sorted ascending.   *)
(* `tracker_opt` is Option<&UtxoSet>.                                    *)
multi_extract(base, block, tracker_opt) ==
    LET txs == IF block.txdata = <<>> THEN <<>> ELSE Tail(block.txdata) IN
    IF base = "fee_rates"
    THEN IF tracker_opt = {} THEN [panic |-> TRUE, data |-> <<>>]
         ELSE LET r == FeeRatesOf(CHOOSE u \in tracker_opt : TRUE, txs) IN
              [panic |-> r.panic, data |-> SortAscending(r.data)]
    ELSE [panic |-> FALSE, data |-> SortAscending(TxSizesOf(txs))]

(* The OP_RETURN outputs of the transactions, as their script lengths. *)
RECURSIVE OpReturnScripts(_)
OpReturnScripts(txs) ==
    IF txs = <<>> THEN <<>>
    ELSE SelectSeq([i \in 1 .. Len(txs[1].outputs) |-> txs[1].outputs[i]],
                   LAMBDA o : o.op_return)
         \o OpReturnScripts(Tail(txs))

RECURSIVE SumScriptLen(_)
SumScriptLen(outs) ==
    IF outs = <<>> THEN 0 ELSE outs[1].script_len + SumScriptLen(Tail(outs))

CountLonger(outs, n) == Len(SelectSeq(outs, LAMBDA o : o.script_len > n))

(* The f64 sum of weight / 4.0 over the transactions, added on to sum. *)
RECURSIVE SumVbytes(_, _)
SumVbytes(txs, sum) ==
    IF txs = <<>> THEN sum
    ELSE SumVbytes(Tail(txs), F64Add(sum, Vbytes(txs[1].weight)))

(* The transactions in the form calculate_block_fees takes them. *)
AmountsOf(txs) ==
    [i \in 1 .. Len(txs) |->
        [output |-> [j \in 1 .. Len(txs[i].outputs) |->
                        U64Of(txs[i].outputs[j].value)]]]

(* to_sat() as f64, for an amount below 2^31. *)
SatsOf(a) == CASE a[3] = 0 /\ a[4] = 0 -> a[1] + a[2] * LimbBase

(* The fee_avg extractor, main.rs:554-569.  The coinbase outputs of the  *)
(* blocks drawn sum below 2^64, so the build does not matter.            *)
fee_avg(block, height) ==
    LET fees == calculate_block_fees(AmountsOf(block.txdata), height, TRUE)
        total_vbytes == IF block.txdata = <<>> THEN F64Zero
                        ELSE SumVbytes(Tail(block.txdata), F64Zero)
    IN [panic |-> fees.panic,
        value |-> IF fees.panic THEN F64Zero
                  ELSE IF F64Less(F64Zero, total_vbytes)
                  THEN F64Div(F64Of(SatsOf(fees.value)), total_vbytes)
                  ELSE F64Zero]

(* A single-valued extractor, main.rs:550-629: [panic, value]. *)
single_extract(name, block, height, tracker_opt) ==
    CASE name = "height" -> [panic |-> FALSE, value |-> F64Of(height)]
      [] name = "timestamp" ->
            [panic |-> FALSE, value |-> F64Of(block.header.time)]
      [] name = "tx_count" ->
            [panic |-> FALSE, value |-> F64Of(Len(block.txdata))]
      [] name = "fee_avg" -> fee_avg(block, height)
      [] name = "block_size" -> [panic |-> FALSE, value |-> F64Zero]
      [] name = "utxo_size" ->
            IF tracker_opt = {} THEN [panic |-> TRUE, value |-> F64Zero]
            ELSE [panic |-> FALSE,
                  value |-> F64Of(utxo_len(CHOOSE u \in tracker_opt : TRUE))]
      [] name = "op_return_count" ->
            [panic |-> FALSE,
             value |-> F64Of(Len(OpReturnScripts(block.txdata)))]
      [] name = "op_return_bytes" ->
            [panic |-> FALSE,
             value |-> F64Of(SumScriptLen(OpReturnScripts(block.txdata)))]
      [] name = "op_return_gt40" ->
            [panic |-> FALSE,
             value |-> F64Of(CountLonger(OpReturnScripts(block.txdata), 40))]
      [] name = "op_return_gt80" ->
            [panic |-> FALSE,
             value |-> F64Of(CountLonger(OpReturnScripts(block.txdata), 80))]

(* calculate_quantiles for one quantile q, main.rs:699-712 *)
quantile_of(sorted_data, q) ==
    IF q = F64Zero THEN sorted_data[1]
    ELSE IF q = F64Of(100) THEN sorted_data[Len(sorted_data)]
    ELSE Only({ LET lower == F64Floor(pos)
                    upper == F64Ceil(pos)
                    weight == F64Sub(pos, F64Of(lower))
                IN IF lower = upper THEN sorted_data[lower + 1]
                   ELSE F64Add(F64Mul(sorted_data[lower + 1],
                                      F64Sub(F64Of(1), weight)),
                               F64Mul(sorted_data[upper + 1], weight)) :
                  pos \in { F64Mul(F64Div(q, F64Of(100)),
                                   F64Of(Len(sorted_data) - 1)) } })

(* calculate_quantiles, main.rs:693-716 *)
calculate_quantiles(sorted_data, quantiles) ==
    [i \in 1 .. Len(quantiles) |->
        IF sorted_data = <<>> THEN F64Zero
        ELSE quantile_of(sorted_data, quantiles[i])]

(* The quantile points of a column as parse::<f64> gives them,           *)
(* main.rs:527-530; the columns drawn name whole numbers.                *)
ParsedQuantiles(quantiles) ==
    [i \in 1 .. Len(quantiles) |-> F64Of(quantiles[i])]

(* The values one block appends to the builders, main.rs:821-849:       *)
(* [panic, row].  The value of block_size is the one cached in the      *)
(* index entry (main.rs:827-830); its extractor is not called.           *)
RECURSIVE ExtractRow(_, _, _, _, _)
ExtractRow(specs, block, location, height, tracker_opt) ==
    IF specs = <<>> THEN [panic |-> FALSE, row |-> <<>>]
    ELSE LET c == specs[1]
             rest == ExtractRow(Tail(specs), block, location, height,
                                tracker_opt)
         IN IF c.bracket
            THEN LET m == multi_extract(c.base, block, tracker_opt) IN
                 [panic |-> m.panic \/ rest.panic,
                  row |-> IF m.panic THEN <<>>
                          ELSE calculate_quantiles(m.data,
                                                   ParsedQuantiles(c.quantiles))
                               \o rest.row]
            ELSE LET v == IF c.base = "block_size"
                          THEN [panic |-> FALSE,
                                value |-> F64Of(location.block_size)]
                          ELSE single_extract(c.base, block, height,
                                              tracker_opt)
                 IN [panic |-> v.panic \/ rest.panic,
                     row |-> <<v.value>> \o rest.row]

-----------------------------------------------------------------------------
(* The tracker protocol of one block, main.rs:807-819 and 851-862 *)

Event(op, txid, vout) == [op |-> op, txid |-> txid, vout |-> vout]

(* All (txid, vout, value) of the block for which add_output is called,  *)
(* in call order: every output that is not OP_RETURN.                    *)
RECURSIVE OutputsOfTx(_, _)
OutputsOfTx(tx, i) ==
    IF i > Len(tx.outputs) THEN <<>>
    ELSE (IF tx.outputs[i].op_return THEN <<>>
          ELSE <<[txid |-> tx.txid, vout |-> i - 1,
                  value |-> tx.outputs[i].value]>>)
         \o OutputsOfTx(tx, i + 1)

RECURSIVE AddedOutputs(_)
AddedOutputs(block) ==
    IF block = <<>> THEN <<>>
    ELSE OutputsOfTx(block[1], 1) \o AddedOutputs(Tail(block))

(* All inputs of the transactions after the coinbase, in call order. *)
RECURSIVE InputsOf(_)
InputsOf(txs) ==
    IF txs = <<>> THEN <<>> ELSE txs[1].inputs \o InputsOf(Tail(txs))

SpentInputs(block) == IF block = <<>> THEN <<>> ELSE InputsOf(Tail(block))

(* The add loop: add_output for each output in turn, stopping at the     *)
(* first error.  [ok, set, log].                                         *)
RECURSIVE AddAll(_, _, _, _)
AddAll(u, outs, height, log) ==
    IF outs = <<>> THEN [ok |-> TRUE, set |-> u, log |-> log]
    ELSE LET r == add_output(u, outs[1].txid, outs[1].vout, outs[1].value,
                             height)
             log1 == Append(log, Event("add_output", outs[1].txid, outs[1].vout))
         IN IF r.ok THEN AddAll(r.set, Tail(outs), height, log1)
            ELSE [ok |-> FALSE, set |-> r.set, log |-> log1]

(* The removal loop: mark_for_removal for each input in turn.            *)
RECURSIVE MarkAll(_, _, _)
MarkAll(u, ins, log) ==
    IF ins = <<>> THEN [set |-> u, log |-> log]
    ELSE MarkAll(mark_for_removal(u, ins[1].txid, ins[1].vout), Tail(ins),
                 Append(log, Event("mark_for_removal", ins[1].txid, ins[1].vout)))

-----------------------------------------------------------------------------
(* export_arrow_file, main.rs:718-902 *)

ColTxCount == Col("tx_count", FALSE, <<>>)
ColHeight == Col("height", FALSE, <<>>)
ColUtxoSize == Col("utxo_size", FALSE, <<>>)
ColFeeRatesBare == Col("fee_rates", FALSE, <<>>)
ColFeeRates(qs) == Col("fee_rates", TRUE, qs)

(* The column lists a request may name. *)
ColumnRequests ==
    { <<ColTxCount>>,
      <<ColHeight, ColUtxoSize>>,
      <<ColFeeRates(<<0, 50>>), ColTxCount>>,
      <<ColFeeRatesBare>>,
      <<ColTxCount, Col("utxo_size", TRUE, <<50>>)>>,
      <<Col("block_size", FALSE, <<>>), Col("timestamp", FALSE, <<>>),
        Col("fee_avg", FALSE, <<>>), Col("op_return_count", FALSE, <<>>),
        Col("op_return_bytes", FALSE, <<>>), Col("op_return_gt40", FALSE, <<>>),
        Col("op_return_gt80", FALSE, <<>>)>>,
      <<ColHeight, ColMalformed("tx_size", <<50>>, FALSE, TRUE)>>,
      <<ColMalformed("tx_size", <<>>, TRUE, FALSE)>>,
      <<ColMalformed("nosuch", <<>>, TRUE, TRUE)>>,
      <<Col("tx_size", TRUE, <<101>>)>> }

(* --max-height: absent, or any height up to one past the tip. *)
MaxHeightArgs(tip) == {{}} \cup { {m} : m \in 0 .. tip + 1 }

(* What the index and the block files hold for the heights 0 .. tip:    *)
(* the block_size cached in each index entry and the time of each       *)
(* block's header.                                                       *)
BlockSizes(tip) ==
    { [h \in 0 .. tip |-> 221 + h], [h \in 0 .. tip |-> 285] }
HeaderTimes(tip) ==
    { [h \in 0 .. tip |-> 1231 + 6 * h] }

ExportRequests ==
    { [utxo |-> u, max_height |-> m, columns |-> c, tip_height |-> t,
       block_sizes |-> s, header_times |-> ht] :
        u \in BOOLEAN, t \in {MaxTipHeight}, m \in MaxHeightArgs(MaxTipHeight),
        c \in ColumnRequests, s \in BlockSizes(MaxTipHeight),
        ht \in HeaderTimes(MaxTipHeight) }

(* The index entry of a height, and the block read at the current       *)
(* height with its header.                                               *)
LocationAt(h) == Location(x_in.block_sizes[h])
BlockAt(h, txdata) == Block(x_in.header_times[h], txdata)

(* main.rs:741-757: the names of the expanded columns, one per single   *)
(* metric and one per quantile of a multi metric.                        *)
RECURSIVE expanded_column_names(_)
expanded_column_names(columns) ==
    IF columns = <<>> THEN <<>>
    ELSE (IF columns[1].bracket
          THEN [i \in 1 .. Len(columns[1].quantiles) |->
                   <<columns[1].base, columns[1].quantiles[i]>>]
          ELSE <<columns[1].base>>)
         \o expanded_column_names(Tail(columns))

(* main.rs:836-846: values[i] goes to the builder builder_idx reaches    *)
(* with it.                                                              *)
append_values(bs, values) ==
    [i \in 1 .. Len(bs) |->
        IF i <= Len(values) THEN Append(bs[i], values[i]) ELSE bs[i]]

(* main.rs:737 *)
export_max_height ==
    IF x_in.max_height = {} THEN x_in.tip_height
    ELSE CHOOSE m \in x_in.max_height : TRUE

(* The first error of parsing the column list, "" when there is none. *)
RECURSIVE ParseColumns(_)
ParseColumns(columns) ==
    IF columns = <<>> THEN ""
    ELSE IF parse_column_spec(columns[1]) # "" THEN parse_column_spec(columns[1])
    ELSE ParseColumns(Tail(columns))

(* main.rs:718-739: the index is loaded; nothing parsed or read yet.    *)
ExportInit ==
    /\ x_in \in ExportRequests
    /\ xpc = "start"
    /\ x_height = 0
    /\ cur_block = <<>>
    /\ seen_txids = {}
    /\ x_chain = <<>>
    /\ utxo_set = {}
    /\ xlog = <<>>
    /\ builders = <<>>
    /\ out_file = {}
    /\ xerr = ""
    /\ PureIdle
    /\ ReaderIdle
    /\ IterIdle
    /\ tracker = UtxoSetNew
    /\ ulast = NoUtxoCall
    /\ last_mark = {}
    /\ headers = EmptyMap
    /\ scanned = {}
    /\ blocks_by_hash = EmptyMap
    /\ genesis_hash = {}
    /\ pending = {}
    /\ last_call = NoCall
    /\ tip_hash = {}
    /\ block_index = BlockIndexNew
    /\ current_hash = ZeroHash
    /\ current_height = 0
    /\ saved = {}
    /\ bpc = "idle"
    /\ berr = ""

(* main.rs:740-797: parse the columns, check the --utxo flag, set up the *)
(* builders and the tracker.                                             *)
ExportStart ==
    /\ UNCHANGED notExportVars
    /\ xpc = "start"
    /\ IF ParseColumns(x_in.columns) # ""
       THEN /\ xpc' = "error"
            /\ xerr' = ParseColumns(x_in.columns)
            /\ UNCHANGED utxo_set
       ELSE IF ~x_in.utxo /\ \E i \in 1 .. Len(x_in.columns) :
                                column_requires_utxo(x_in.columns[i].base)
       THEN /\ xpc' = "error"
            /\ xerr' = "requires_utxo"
            /\ UNCHANGED utxo_set
       ELSE /\ xpc' = "read"
            /\ xerr' = xerr
            /\ utxo_set' = IF x_in.utxo THEN {UtxoSetNew} ELSE {}
    /\ builders' = IF xpc' = "read"
                   THEN [i \in 1 .. Len(expanded_column_names(x_in.columns)) |-> <<>>]
                   ELSE builders
    /\ UNCHANGED <<x_in, x_height, cur_block, seen_txids, x_chain, xlog,
                   out_file>>

(* main.rs:801-806 and 873-878: the next height of the range; its       *)
(* location must be in the index and the block must be readable.        *)
ExportReadBlock(block, readable) ==
    /\ UNCHANGED notExportVars
    /\ xpc = "read"
    /\ x_height <= export_max_height
    /\ IF x_height > x_in.tip_height
       THEN /\ xpc' = "error"
            /\ xerr' = "not_in_index"
            /\ UNCHANGED <<cur_block, seen_txids, x_chain, xlog>>
       ELSE IF ~readable
       THEN /\ xpc' = "error"
            /\ xerr' = "could_not_read"
            /\ UNCHANGED <<cur_block, seen_txids, x_chain, xlog>>
       ELSE /\ block \in BlockChoices(seen_txids)
            /\ cur_block' = block
            /\ seen_txids' = seen_txids \cup TxidsOf(block)
            /\ x_chain' = Append(x_chain, block)
            /\ xlog' = <<>>
            /\ xpc' = "add"
            /\ xerr' = xerr
    /\ UNCHANGED <<x_in, x_height, utxo_set, builders, out_file>>

(* ExportAddOutputs with the removals made straight after the adds.     *)
ExportAddOutputs_RemovesEarly ==
    /\ UNCHANGED notExportVars
    /\ xpc = "add"
    /\ IF utxo_set = {}
       THEN /\ xpc' = "extract"
            /\ UNCHANGED <<utxo_set, xlog, xerr>>
       ELSE LET r == AddAll(CHOOSE u \in utxo_set : TRUE,
                            AddedOutputs(cur_block), x_height, xlog)
                m == MarkAll(r.set, SpentInputs(cur_block), r.log)
            IN
            /\ utxo_set' = IF r.ok THEN {commit_removals(m.set)} ELSE {r.set}
            /\ xlog' = IF r.ok THEN Append(m.log, Event("commit_removals", NoTxid, 0))
                       ELSE r.log
            /\ xpc' = IF r.ok THEN "extract" ELSE "error"
            /\ xerr' = IF r.ok THEN xerr ELSE "utxo_collision"
    /\ UNCHANGED <<x_in, x_height, cur_block, seen_txids, x_chain, builders,
                   out_file>>

(* main.rs:807-819 *)
ExportAddOutputs ==
    /\ UNCHANGED notExportVars
    /\ xpc = "add"
    /\ IF utxo_set = {}
       THEN /\ xpc' = "extract"
            /\ UNCHANGED <<utxo_set, xlog, xerr>>
       ELSE LET r == AddAll(CHOOSE u \in utxo_set : TRUE,
                            AddedOutputs(cur_block), x_height, xlog) IN
            /\ utxo_set' = {r.set}
            /\ xlog' = r.log
            /\ xpc' = IF r.ok THEN "extract" ELSE "error"
            /\ xerr' = IF r.ok THEN xerr ELSE "utxo_collision"
    /\ UNCHANGED <<x_in, x_height, cur_block, seen_txids, x_chain, builders,
                   out_file>>

(* ExportExtract that puts the newest block's values first. *)
ExportExtract_NewestFirst ==
    /\ UNCHANGED notExportVars
    /\ xpc = "extract"
    /\ LET r == ExtractRow(x_in.columns, BlockAt(x_height, cur_block),
                          LocationAt(x_height), x_height, utxo_set) IN
       IF r.panic
       THEN /\ xpc' = "panic"
            /\ UNCHANGED <<builders, xlog>>
       ELSE /\ xpc' = "remove"
            /\ builders' = [i \in 1 .. Len(builders) |->
                                <<r.row[i]>> \o builders[i]]
            /\ xlog' = Append(xlog, Event("extract", NoTxid, 0))
    /\ UNCHANGED <<x_in, x_height, cur_block, seen_txids, x_chain, utxo_set,
                   out_file, xerr>>

(* ExportExtract that writes the rows gathered so far after each block. *)
ExportExtract_WritesEachRow ==
    /\ UNCHANGED notExportVars
    /\ xpc = "extract"
    /\ LET r == ExtractRow(x_in.columns, BlockAt(x_height, cur_block),
                          LocationAt(x_height), x_height, utxo_set) IN
       IF r.panic
       THEN /\ xpc' = "panic"
            /\ UNCHANGED <<builders, xlog, out_file>>
       ELSE /\ xpc' = "remove"
            /\ builders' = append_values(builders, r.row)
            /\ out_file' = {builders'}
            /\ xlog' = Append(xlog, Event("extract", NoTxid, 0))
    /\ UNCHANGED <<x_in, x_height, cur_block, seen_txids, x_chain, utxo_set, xerr>>

(* main.rs:821-849 *)
ExportExtract ==
    /\ UNCHANGED notExportVars
    /\ xpc = "extract"
    /\ LET r == ExtractRow(x_in.columns, BlockAt(x_height, cur_block),
                          LocationAt(x_height), x_height, utxo_set) IN
       IF r.panic
       THEN /\ xpc' = "panic"
            /\ UNCHANGED <<builders, xlog>>
       ELSE /\ xpc' = "remove"
            /\ builders' = append_values(builders, r.row)
            /\ xlog' = Append(xlog, Event("extract", NoTxid, 0))
    /\ UNCHANGED <<x_in, x_height, cur_block, seen_txids, x_chain, utxo_set, out_file,
                   xerr>>

(* main.rs:851-872 and the loop step. *)
ExportRemove ==
    /\ UNCHANGED notExportVars
    /\ xpc = "remove"
    /\ IF utxo_set = {}
       THEN UNCHANGED <<utxo_set, xlog>>
       ELSE LET m == MarkAll(CHOOSE u \in utxo_set : TRUE,
                             SpentInputs(cur_block), xlog) IN
            /\ utxo_set' = {commit_removals(m.set)}
            /\ xlog' = Append(m.log, Event("commit_removals", NoTxid, 0))
    /\ x_height' = x_height + 1
    /\ xpc' = "read"
    /\ UNCHANGED <<x_in, cur_block, seen_txids, x_chain, builders, out_file,
                   xerr>>

(* What becomes of the file once every height is done: it is written    *)
(* and read back (main.rs:890-899); or File::create, FileWriter::try_new, *)
(* write or close returns an error and no batch is stored; or the file   *)
(* is written and verify_arrow_file (main.rs:904-944) returns an error   *)
(* or panics on `batch.unwrap()`.  out_file holds the batches stored.    *)
WriteOutcomes == {"written", "failed", "verify_failed", "verify_panicked"}
WriteErrors == {"write", "verify"}

(* main.rs:881-902: every height done; the batch is built and stored.    *)
ExportWrite(outcome) ==
    /\ UNCHANGED notExportVars
    /\ xpc = "read"
    /\ x_height > export_max_height
    /\ IF \E i, j \in 1 .. Len(builders) : Len(builders[i]) # Len(builders[j])
       THEN /\ out_file' = out_file
            /\ xpc' = "error"
            /\ xerr' = "record_batch"
       ELSE IF outcome = "failed"
       THEN /\ out_file' = out_file
            /\ xpc' = "error"
            /\ xerr' = "write"
       ELSE IF outcome = "verify_failed"
       THEN /\ out_file' = {builders}
            /\ xpc' = "error"
            /\ xerr' = "verify"
       ELSE IF outcome = "verify_panicked"
       THEN /\ out_file' = {builders}
            /\ xpc' = "panic"
            /\ xerr' = "verify"
       ELSE /\ out_file' = {builders}
            /\ xpc' = "done"
            /\ xerr' = xerr
    /\ UNCHANGED <<x_in, x_height, cur_block, seen_txids, x_chain, utxo_set,
                   xlog, builders>>

ExportNext ==
    \/ ExportStart
    \/ \E b \in BlockChoices({}), readable \in BOOLEAN : ExportReadBlock(b, readable)
    \/ ExportAddOutputs
    \/ ExportExtract
    \/ ExportRemove
    \/ \E outcome \in WriteOutcomes : ExportWrite(outcome)

-----------------------------------------------------------------------------
(* The parts above, held still by the specifications below. *)

BuildIdle ==
    /\ headers = EmptyMap
    /\ scanned = {}
    /\ blocks_by_hash = EmptyMap
    /\ genesis_hash = {}
    /\ pending = {}
    /\ last_call = NoCall
    /\ tip_hash = {}
    /\ block_index = BlockIndexNew
    /\ current_hash = ZeroHash
    /\ current_height = 0
    /\ saved = {}
    /\ bpc = "idle"
    /\ berr = ""

UtxoIdle ==
    /\ tracker = UtxoSetNew
    /\ ulast = NoUtxoCall
    /\ last_mark = {}

ExportIdle ==
    /\ x_in = [utxo |-> FALSE, max_height |-> {}, columns |-> <<>>,
               tip_height |-> 0]
    /\ xpc = "idle"
    /\ x_height = 0
    /\ cur_block = <<>>
    /\ seen_txids = {}
    /\ x_chain = <<>>
    /\ utxo_set = {}
    /\ xlog = <<>>
    /\ builders = <<>>
    /\ out_file = {}
    /\ xerr = ""

-----------------------------------------------------------------------------
(* Inputs of get_block_reward and calculate_block_fees called on their   *)
(* own.                                                                  *)

(* The u64 written in decimal digits, most significant first. *)
RECURSIVE Satoshis(_)
Satoshis(digits) ==
    IF digits = <<>> THEN U64Zero
    ELSE U64Add(U64MulSmall(Satoshis(SubSeq(digits, 1, Len(digits) - 1)), 10),
                U64Of(digits[Len(digits)])).value

(* Heights get_block_reward is applied to: around every halving up to    *)
(* MaxHalvings, and the largest height kept in 31 bits.                  *)
RewardHeights ==
    { k * HalvingInterval + d : k \in 0 .. MaxHalvings,
                                d \in {0, 1, HalvingInterval - 1} }
    \cup {2147483647}

(* Output values of a coinbase: nothing, one satoshi, around the first   *)
(* subsidy, and values whose sum leaves 64 bits.                         *)
FeeValues ==
    { U64Zero, U64Of(1), U64Of(MaxValue),
      Satoshis(<<2, 5, 0, 0, 0, 0, 0, 0, 0, 0>>),
      Satoshis(<<5, 0, 0, 0, 0, 0, 0, 0, 0, 0>>),
      Satoshis(<<5, 0, 0, 0, 0, 0, 0, 0, 0, 1>>),
      <<0, 0, 0, LimbBase \div 2>>,
      <<LimbBase - 1, LimbBase - 1, LimbBase - 1, LimbBase - 1>> }

(* Sequences over S of length at most n. *)
RECURSIVE SeqsUpTo(_, _)
SeqsUpTo(S, n) ==
    IF n = 0 THEN {<<>>}
    ELSE {<<>>} \cup { <<x>> \o t : x \in S, t \in SeqsUpTo(S, n - 1) }

FeeTx(values) == [output |-> values]

(* Transaction lists: empty, a coinbase alone, a coinbase and a payment. *)
FeeTransactions ==
    {<<>>}
    \cup { <<FeeTx(v)>> : v \in SeqsUpTo(FeeValues, MaxOutputs) }
    \cup { <<FeeTx(v), FeeTx(<<U64Of(1)>>)>> : v \in SeqsUpTo(FeeValues, MaxOutputs) }

FeesInit ==
    /\ p_in \in [height : RewardHeights, transactions : FeeTransactions]
    /\ p_out = <<>>
    /\ p_pc = "args"
    /\ BuildIdle
    /\ UtxoIdle
    /\ ExportIdle
    /\ ReaderIdle
    /\ IterIdle

GetBlockReward ==
    /\ p_pc = "args"
    /\ p_out' = [fn |-> "get_block_reward", panic |-> FALSE,
                 value |-> get_block_reward(p_in.height)]
    /\ p_pc' = "called"
    /\ UNCHANGED p_in
    /\ UNCHANGED notPureVars

CalculateBlockFees(overflow_checks) ==
    /\ p_pc = "args"
    /\ LET r == calculate_block_fees(p_in.transactions, p_in.height,
                                     overflow_checks) IN
       p_out' = [fn |-> "calculate_block_fees", panic |-> r.panic,
                 value |-> r.value]
    /\ p_pc' = "called"
    /\ UNCHANGED p_in
    /\ UNCHANGED notPureVars

FeesNext ==
    \/ GetBlockReward
    \/ \E overflow_checks \in BOOLEAN : CalculateBlockFees(overflow_checks)

-----------------------------------------------------------------------------
(* The fee of one transaction as the fee_rates extractor computes it,    *)
(* main.rs:660-678, on 64-bit amounts.  `lookups` is what get_value      *)
(* returned for each input (Option<u64> as a set of size <= 1),          *)
(* `output_values` the values of the outputs.                            *)

(* The fee taken as 0 when the inputs do not cover the outputs. *)
transaction_fee_Clamps(lookups, output_values, overflow_checks) ==
    IF \E i \in 1 .. Len(lookups) : lookups[i] = {}
    THEN [panic |-> TRUE, fee |-> U64Zero]
    ELSE LET input_value ==
                 SumU64([i \in 1 .. Len(lookups) |-> CHOOSE v \in lookups[i] : TRUE])
             output_value == SumU64(output_values)
         IN IF overflow_checks /\ (input_value.overflow \/ output_value.overflow)
            THEN [panic |-> TRUE, fee |-> U64Zero]
            ELSE IF U64Less(input_value.value, output_value.value)
            THEN [panic |-> FALSE, fee |-> U64Zero]
            ELSE [panic |-> FALSE,
                  fee |-> U64Sub(input_value.value, output_value.value)]

transaction_fee(lookups, output_values, overflow_checks) ==
    IF \E i \in 1 .. Len(lookups) : lookups[i] = {}
    THEN [panic |-> TRUE, fee |-> U64Zero]
    ELSE LET input_value ==
                 SumU64([i \in 1 .. Len(lookups) |-> CHOOSE v \in lookups[i] : TRUE])
             output_value == SumU64(output_values)
         IN IF overflow_checks /\ (input_value.overflow \/ output_value.overflow)
            THEN [panic |-> TRUE, fee |-> U64Zero]
            ELSE IF U64Less(input_value.value, output_value.value)
            THEN [panic |-> TRUE, fee |-> U64Zero]
            ELSE [panic |-> FALSE,
                  fee |-> U64Sub(input_value.value, output_value.value)]

(* Amounts: nothing, small ones, 2^63 and the largest u64. *)
AmountValues ==
    { U64Zero, U64Of(1), U64Of(MaxValue),
      <<0, 0, 0, LimbBase \div 2>>,
      <<LimbBase - 1, LimbBase - 1, LimbBase - 1, LimbBase - 1>> }

InputLookups == {{}} \cup { {v} : v \in AmountValues }

FeeRatesInit ==
    /\ p_in \in [lookups : SeqsUpTo(InputLookups, MaxOutputs) \ {<<>>},
                 output_values : SeqsUpTo(AmountValues, MaxOutputs)]
    /\ p_out = <<>>
    /\ p_pc = "args"
    /\ BuildIdle
    /\ UtxoIdle
    /\ ExportIdle
    /\ ReaderIdle
    /\ IterIdle

TransactionFee(overflow_checks) ==
    /\ p_pc = "args"
    /\ LET r == transaction_fee(p_in.lookups, p_in.output_values, overflow_checks) IN
       p_out' = [fn |-> "fee_rates", overflow_checks |-> overflow_checks,
                 panic |-> r.panic, value |-> r.fee]
    /\ p_pc' = "called"
    /\ UNCHANGED p_in
    /\ UNCHANGED notPureVars

FeeRatesNext == \E overflow_checks \in BOOLEAN : TransactionFee(overflow_checks)

-----------------------------------------------------------------------------
(* calculate_quantiles called on its own, on ascending lists of up to    *)
(* MaxSamples values, whole and not, and on quantiles, whole and not.    *)

SampleKinds == {"whole", "quarters", "thirds", "pairs", "squares"}

(* The i-th value of a list of a kind. *)
Sample(kind, i) ==
    CASE kind = "whole" -> F64Of(i)
      [] kind = "quarters" -> F64Div(F64Of(i), F64Of(4))
      [] kind = "thirds" -> F64Div(F64Of(i), F64Of(3))
      [] kind = "pairs" -> F64Of((i + 1) \div 2)
      [] kind = "squares" -> F64Of(i * i)

(* The list of the first n values of a kind. *)
Samples(kind, n) == [i \in 1 .. n |-> Sample(kind, i)] \o <<>>

QuantilePoints ==
    { F64Of(q) : q \in 0 .. 100 }
    \cup { ParseF64(tenths, 10) :
             tenths \in {1, 5, 25, 75, 125, 333, 667, 875, 999} }

QuantileLists ==
    { <<q>> : q \in QuantilePoints }
    \cup { <<>>,
           <<F64Of(0), F64Of(25), F64Of(50), F64Of(100)>>,
           <<F64Of(100), F64Of(0)>>,
           <<F64Of(50), F64Of(50), F64Of(10)>> }

(* The lists of every kind and of every length up to MaxSamples. *)
SampleLists ==
    UNION { { SubSeq(longest, 1, n) : n \in 0 .. MaxSamples } :
              longest \in { Samples(kind, MaxSamples) : kind \in SampleKinds } }

QuantilesInit ==
    /\ p_in \in [sorted_data : SampleLists, quantiles : QuantileLists]
    /\ p_out = <<>>
    /\ p_pc = "args"
    /\ BuildIdle
    /\ UtxoIdle
    /\ ExportIdle
    /\ ReaderIdle
    /\ IterIdle

CalculateQuantiles ==
    /\ p_pc = "args"
    /\ p_out' = [fn |-> "calculate_quantiles", panic |-> FALSE,
                 value |-> calculate_quantiles(p_in.sorted_data, p_in.quantiles)]
    /\ p_pc' = "called"
    /\ UNCHANGED p_in
    /\ UNCHANGED notPureVars

QuantilesNext == CalculateQuantiles

-----------------------------------------------------------------------------
(* The obfuscation-key record of a LevelDB store.  db.get gives the      *)
(* record as Option: a set holding at most one byte sequence.            *)

(* BlockIndexReader::read_obfuscate_key, block_iterator.rs:69-88 *)
read_obfuscate_key(record) ==
    IF record = {} THEN [kind |-> "Ok", value |-> <<0, 0, 0, 0, 0, 0, 0, 0>>]
    ELSE LET value == CHOOSE v \in record : TRUE IN
         IF Len(value) >= 8
         THEN [kind |-> "Ok", value |-> SubSeq(value, 1, 8)]
         ELSE [kind |-> "Ok", value |-> <<0, 0, 0, 0, 0, 0, 0, 0>>]

(* read_obfuscation_key, chain_tip.rs:30-45: vec.remove(0) drops the     *)
(* first byte and keeps all the others.                                  *)
read_obfuscation_key(record) ==
    IF record = {} THEN [kind |-> "Err", value |-> <<>>]
    ELSE LET vec == CHOOSE v \in record : TRUE IN
         IF Len(vec) < 9 THEN [kind |-> "panic", value |-> <<>>]
         ELSE [kind |-> "Ok", value |-> Tail(vec)]

(* Records of every length up to MaxKeyRecord, of bytes that differ. *)
KeyRecords ==
    {{}} \cup { { [i \in 1 .. n |-> (b + 16 * i) % 256] } :
                  n \in 0 .. MaxKeyRecord, b \in {0, 1, 8, 165, 255} }

KeysInit ==
    /\ p_in \in [record : KeyRecords]
    /\ p_out = <<>>
    /\ p_pc = "args"
    /\ BuildIdle
    /\ UtxoIdle
    /\ ExportIdle
    /\ ReaderIdle
    /\ IterIdle

ReadObfuscateKey ==
    /\ p_pc = "args"
    /\ LET r == read_obfuscate_key(p_in.record) IN
       p_out' = [fn |-> "read_obfuscate_key", kind |-> r.kind, value |-> r.value]
    /\ p_pc' = "called"
    /\ UNCHANGED p_in
    /\ UNCHANGED notPureVars

ReadObfuscationKey ==
    /\ p_pc = "args"
    /\ LET r == read_obfuscation_key(p_in.record) IN
       p_out' = [fn |-> "read_obfuscation_key", kind |-> r.kind, value |-> r.value]
    /\ p_pc' = "called"
    /\ UNCHANGED p_in
    /\ UNCHANGED notPureVars

KeysNext ==
    \/ ReadObfuscateKey
    \/ ReadObfuscationKey

-----------------------------------------------------------------------------
(* BlockFileReader, block_parser.rs.  Bytes are numbers 0..255, a file  *)
(* is a sequence of bytes, a stream position counts bytes from 0.        *)

ByteXor(a, b) == XorBits(a, b, 8)

(* deobfuscate_data with the within-call index as the key position. *)
deobfuscate_data_FromCallStart(data, offset, xor_key) ==
    [i \in 1 .. Len(data) |-> ByteXor(data[i], xor_key[((i - 1) % 8) + 1])]

(* deobfuscate_data that adds the key byte. *)
deobfuscate_data_Adds(data, offset, xor_key) ==
    [i \in 1 .. Len(data) |->
        (data[i] + xor_key[((offset + i - 1) % 8) + 1]) % 256]

(* deobfuscate_data, block_parser.rs:26-30 *)
deobfuscate_data(data, offset, xor_key) ==
    [i \in 1 .. Len(data) |->
        ByteXor(data[i], xor_key[((offset + i - 1) % 8) + 1])]

\* block_parser.rs:51  [0xf9, 0xbe, 0xb4, 0xd9]
Magic == <<249, 190, 180, 217>>

(* u32::from_le_bytes *)
u32_from_le_bytes(b) == b[1] + 256 * b[2] + 65536 * b[3] + 16777216 * b[4]

(* The bytes of `file` from stream position `pos`, at most n of them. *)
BytesAt(file, pos, n) ==
    IF pos >= Len(file) THEN <<>>
    ELSE SubSeq(file, pos + 1, IF pos + n <= Len(file) THEN pos + n ELSE Len(file))

(* bitcoin::consensus::deserialize::<Block> on a payload too short to    *)
(* hold a transaction: it decodes exactly when the 80 header bytes are   *)
(* followed by a transaction count of 0 and nothing else.                *)
block_decodes(payload) == Len(payload) = 81 /\ payload[81] = 0

(* Block::consensus_decode from a cursor over such a payload: it decodes *)
(* when the payload begins with a block, whatever follows it.            *)
consensus_decode(payload) == Len(payload) >= 81 /\ payload[81] = 0

NoBytes == <<>>

(* What a read returns and how it leaves the reader:                     *)
(* kind "Some" | "None" | "Err" | "panic"; offset = current_offset;      *)
(* size = block_size; data = the decoded header or payload; raw_* are    *)
(* the bytes as read, prefix the 8 bytes after deobfuscation.            *)
ReadResult(kind, err, offset, raw_prefix, prefix, size, raw_data, data, pos) ==
    [kind |-> kind, err |-> err, offset |-> offset, raw_prefix |-> raw_prefix,
     prefix |-> prefix, size |-> size, raw_data |-> raw_data, data |-> data,
     pos |-> pos]

(* read_next_block that treats eight zero bytes as the end of the file. *)
read_next_block_StopsAtPadding(file, xor_key, pos) ==
    LET raw == BytesAt(file, pos, 8)
        header_bytes == deobfuscate_data(raw, pos, xor_key)
    IN IF Len(raw) < 8 \/ raw = <<0, 0, 0, 0, 0, 0, 0, 0>>
       THEN ReadResult("None", "", pos, raw, NoBytes, 0, NoBytes, NoBytes,
                       IF pos + 8 > Len(file) THEN Len(file) ELSE pos + 8)
       ELSE ReadResult("Err", "bad_magic", pos, raw, header_bytes, 0, NoBytes,
                       NoBytes, pos + 8)

(* read_next_block, block_parser.rs:32-69 *)
read_next_block(file, xor_key, pos) ==
    LET current_offset == pos
        raw == BytesAt(file, pos, 8)
        eof == IF pos > Len(file) THEN pos ELSE Len(file)
    IN
    IF Len(raw) < 8
    THEN ReadResult("None", "", current_offset, raw, NoBytes, 0, NoBytes,
                    NoBytes, eof)
    ELSE
    LET header_bytes == deobfuscate_data(raw, current_offset, xor_key)
        magic_bytes == SubSeq(header_bytes, 1, 4)
        size_bytes == SubSeq(header_bytes, 5, 8)
    IN
    IF magic_bytes # Magic
    THEN ReadResult("Err", "bad_magic", current_offset, raw, header_bytes, 0,
                    NoBytes, NoBytes, pos + 8)
    ELSE
    LET block_size == u32_from_le_bytes(size_bytes)
        raw_data == BytesAt(file, pos + 8, block_size)
    IN
    IF Len(raw_data) < block_size
    THEN ReadResult("Err", "unexpected_eof", current_offset, raw, header_bytes,
                    block_size, raw_data, NoBytes, eof)
    ELSE
    LET block_data == deobfuscate_data(raw_data, current_offset + 8, xor_key) IN
    IF block_decodes(block_data)
    THEN ReadResult("Some", "", current_offset, raw, header_bytes, block_size,
                    raw_data, block_data, pos + 8 + block_size)
    ELSE ReadResult("Err", "decode", current_offset, raw, header_bytes,
                    block_size, raw_data, block_data, pos + 8 + block_size)

(* read_next_header that leaves the stream after the 80 header bytes. *)
read_next_header_NoSkip(file, xor_key, pos, overflow_checks) ==
    LET current_offset == pos
        raw == BytesAt(file, pos, 8)
        eof == IF pos > Len(file) THEN pos ELSE Len(file)
    IN
    IF Len(raw) < 8
    THEN ReadResult("None", "", current_offset, raw, NoBytes, 0, NoBytes,
                    NoBytes, eof)
    ELSE IF raw = <<0, 0, 0, 0, 0, 0, 0, 0>>
    THEN ReadResult("None", "", current_offset, raw, NoBytes, 0, NoBytes,
                    NoBytes, pos + 8)
    ELSE
    LET magic_and_size == deobfuscate_data(raw, current_offset, xor_key)
        magic_bytes == SubSeq(magic_and_size, 1, 4)
        size_bytes == SubSeq(magic_and_size, 5, 8)
    IN
    IF magic_bytes # Magic
    THEN ReadResult("Err", "bad_magic", current_offset, raw, magic_and_size, 0,
                    NoBytes, NoBytes, pos + 8)
    ELSE
    LET block_size == u32_from_le_bytes(size_bytes)
        raw_data == BytesAt(file, pos + 8, 80)
    IN
    IF Len(raw_data) < 80
    THEN ReadResult("Err", "unexpected_eof", current_offset, raw, magic_and_size,
                    block_size, raw_data, NoBytes, eof)
    ELSE
    LET header_data == deobfuscate_data(raw_data, current_offset + 8, xor_key) IN
    IF block_size < 80 /\ overflow_checks
    THEN ReadResult("panic", "subtract_overflow", current_offset, raw,
                    magic_and_size, block_size, raw_data, header_data, pos + 88)
    ELSE ReadResult("Some", "", current_offset, raw, magic_and_size, block_size,
                    raw_data, header_data, pos + 88)

(* read_next_header, block_parser.rs:71-119.  `overflow_checks` is the  *)
(* build's setting: block_size - 80 below zero panics with it and wraps *)
(* without it, the wrapped value read back as i64 being block_size - 80. *)
read_next_header(file, xor_key, pos, overflow_checks) ==
    LET current_offset == pos
        raw == BytesAt(file, pos, 8)
        eof == IF pos > Len(file) THEN pos ELSE Len(file)
    IN
    IF Len(raw) < 8
    THEN ReadResult("None", "", current_offset, raw, NoBytes, 0, NoBytes,
                    NoBytes, eof)
    ELSE IF raw = <<0, 0, 0, 0, 0, 0, 0, 0>>
    THEN ReadResult("None", "", current_offset, raw, NoBytes, 0, NoBytes,
                    NoBytes, pos + 8)
    ELSE
    LET magic_and_size == deobfuscate_data(raw, current_offset, xor_key)
        magic_bytes == SubSeq(magic_and_size, 1, 4)
        size_bytes == SubSeq(magic_and_size, 5, 8)
    IN
    IF magic_bytes # Magic
    THEN ReadResult("Err", "bad_magic", current_offset, raw, magic_and_size, 0,
                    NoBytes, NoBytes, pos + 8)
    ELSE
    LET block_size == u32_from_le_bytes(size_bytes)
        raw_data == BytesAt(file, pos + 8, 80)
    IN
    IF Len(raw_data) < 80
    THEN ReadResult("Err", "unexpected_eof", current_offset, raw, magic_and_size,
                    block_size, raw_data, NoBytes, eof)
    ELSE
    LET header_data == deobfuscate_data(raw_data, current_offset + 8, xor_key) IN
    IF block_size < 80 /\ overflow_checks
    THEN ReadResult("panic", "subtract_overflow", current_offset, raw,
                    magic_and_size, block_size, raw_data, header_data, pos + 88)
    ELSE ReadResult("Some", "", current_offset, raw, magic_and_size, block_size,
                    raw_data, header_data, pos + 88 + (block_size - 80))

(* seek_to_offset, block_parser.rs:121-124: the new stream position. *)
seek_to_offset(pos, offset) == offset

(* The records a scan visits: reads repeated from `pos` while they      *)
(* return Some, as in `while let Some(..) = reader.read_next_header()?`, *)
(* main.rs:257.  [visited: <<offset, block_size>> per record, end: the   *)
(* kind of the result that ended the scan].                              *)
RECURSIVE header_scan(_, _, _, _)
header_scan(file, xor_key, pos, overflow_checks) ==
    LET r == read_next_header(file, xor_key, pos, overflow_checks) IN
    IF r.kind # "Some" THEN [visited |-> <<>>, end |-> r.kind]
    ELSE LET rest == header_scan(file, xor_key, r.pos, overflow_checks) IN
         [visited |-> <<<<r.offset, r.size>>>> \o rest.visited, end |-> rest.end]

(* The same loop over read_next_block. *)
RECURSIVE block_scan(_, _, _)
block_scan(file, xor_key, pos) ==
    LET r == read_next_block(file, xor_key, pos) IN
    IF r.kind # "Some" THEN [visited |-> <<>>, end |-> r.kind]
    ELSE LET rest == block_scan(file, xor_key, r.pos) IN
         [visited |-> <<<<r.offset, r.size>>>> \o rest.visited, end |-> rest.end]

(* ---- container files ---- *)

(* to_le_bytes of a size below 65536 *)
le_bytes(n) == <<n % 256, n \div 256, 0, 0>>

(* Eighty bytes that differ from record to record. *)
Header80(id) == [i \in 1 .. 80 |-> (id * 16 + i) % 256]

(* One record before obfuscation: magic, size, payload. *)
PlainRecord(kind, id) ==
    IF kind = "block81" THEN Magic \o le_bytes(81) \o Header80(id) \o <<0>>
    ELSE IF kind = "block82"
    THEN Magic \o le_bytes(82) \o Header80(id) \o <<0, 0>>
    ELSE Magic \o le_bytes(2) \o <<7, 9>>

RecordKinds == {"block81", "block82", "tiny"}

(* What follows the whole records: nothing, a record cut short, fewer    *)
(* than eight bytes, or sixteen bytes of zero padding.                   *)
PlainTail(kind) ==
    IF kind = "truncated" THEN Magic \o le_bytes(81) \o SubSeq(Header80(9), 1, 10)
    ELSE IF kind = "short" THEN SubSeq(Magic, 1, 3)
    ELSE <<>>

RawPadding(kind) ==
    IF kind = "zeros" THEN [i \in 1 .. 16 |-> 0] ELSE <<>>

TailKinds == {"none", "truncated", "short", "zeros"}

RECURSIVE PlainRecords(_, _)
PlainRecords(kinds, id) ==
    IF kinds = <<>> THEN <<>>
    ELSE PlainRecord(kinds[1], id) \o PlainRecords(Tail(kinds), id + 1)

(* The writer's obfuscation: the byte at file position p is XORed with   *)
(* the key byte p mod 8.                                                 *)
Obfuscate(plain, xor_key) ==
    [p \in 1 .. Len(plain) |-> ByteXor(plain[p], xor_key[((p - 1) % 8) + 1])]

ContainerFile(kinds, tail, xor_key) ==
    Obfuscate(PlainRecords(kinds, 1) \o PlainTail(tail), xor_key)
    \o RawPadding(tail)

(* xor.dat: no obfuscation, a key of mixed bytes, and the key under      *)
(* which zero padding reads as a magic and a size of 81.                 *)
ReaderKeys ==
    { <<0, 0, 0, 0, 0, 0, 0, 0>>,
      <<165, 2, 240, 15, 51, 204, 85, 170>>,
      Magic \o le_bytes(81) }

(* The whole records of a file: none, or a first record of any kind      *)
(* followed by whole blocks, MaxRecords at most in all.                  *)
RecordLayouts ==
    {<<>>}
    \cup { <<k>> \o [i \in 1 .. n |-> "block81"] :
             k \in RecordKinds, n \in 0 .. MaxRecords - 1 }

ContainerFiles(xor_key) ==
    { ContainerFile(kinds, tail, xor_key) :
        kinds \in RecordLayouts, tail \in TailKinds }

(* Offsets a caller seeks to: where a record can start, and one offset   *)
(* inside a prefix.                                                      *)
RecordStarts ==
    UNION { { Len(PlainRecords(SubSeq(kinds, 1, n), 1)) : n \in 0 .. Len(kinds) } :
            kinds \in RecordLayouts }

SeekOffsets(file) == { o \in RecordStarts \cup {4} : o <= Len(file) }

(* The latest call on the reader: its name, the name of the call before *)
(* it, and what it returned.                                             *)
NoReaderCall ==
    [op |-> "new", after |-> "",
     res |-> ReadResult("", "", 0, NoBytes, NoBytes, 0, NoBytes, NoBytes, 0)]

(* new_with_xor_key, block_parser.rs:14-24 *)
ReaderInit ==
    /\ r_key \in ReaderKeys
    /\ r_file \in ContainerFiles(r_key)
    /\ r_pos = 0
    /\ r_last = NoReaderCall
    /\ BuildIdle
    /\ UtxoIdle
    /\ ExportIdle
    /\ PureIdle
    /\ IterIdle

ReaderAlive == r_last.res.kind # "panic"

ReaderSeek(offset) ==
    /\ ReaderAlive
    /\ offset \in SeekOffsets(r_file)
    /\ r_pos' = seek_to_offset(r_pos, offset)
    /\ r_last' = [op |-> "seek_to_offset", after |-> r_last.op,
                  res |-> ReadResult("Ok", "", offset, NoBytes, NoBytes, 0,
                                     NoBytes, NoBytes, offset)]
    /\ UNCHANGED <<r_file, r_key>>
    /\ UNCHANGED notReaderVars

ReaderReadBlock ==
    /\ ReaderAlive
    /\ r_last' = [op |-> "read_next_block", after |-> r_last.op,
                  res |-> read_next_block(r_file, r_key, r_pos)]
    /\ r_pos' = r_last'.res.pos
    /\ UNCHANGED <<r_file, r_key>>
    /\ UNCHANGED notReaderVars

ReaderReadHeader(overflow_checks) ==
    /\ ReaderAlive
    /\ r_last' = [op |-> "read_next_header", after |-> r_last.op,
                  res |-> read_next_header(r_file, r_key, r_pos, overflow_checks)]
    /\ r_pos' = r_last'.res.pos
    /\ UNCHANGED <<r_file, r_key>>
    /\ UNCHANGED notReaderVars

ReaderNext ==
    \/ \E offset \in RecordStarts \cup {4} : ReaderSeek(offset)
    \/ ReaderReadBlock
    \/ \E overflow_checks \in BOOLEAN : ReaderReadHeader(overflow_checks)

-----------------------------------------------------------------------------
(* Iteration over an index: iterate_blocks, main.rs:458-504, and the     *)
(* loop of block_iterator.rs:256-326.  The index maps every height       *)
(* 0 .. tip to a location; what is stored at a location is one of the    *)
(* conditions below, realised as a container file and an offset.         *)

BlockConditions ==
    {"ok", "missing_file", "end_of_stream", "bad_magic", "truncated",
     "undecodable", "trailing_bytes"}

(* The location the index holds for a block in the given condition:      *)
(* whether its container file can be opened, the file, the offset.       *)
LocationOf(condition, xor_key) ==
    LET two == ContainerFile(<<"block81", "block81">>, "none", xor_key) IN
    IF condition = "ok"
    THEN [exists |-> TRUE, file |-> two, file_offset |-> 89]
    ELSE IF condition = "end_of_stream"
    THEN [exists |-> TRUE, file |-> two, file_offset |-> Len(two)]
    ELSE IF condition = "bad_magic"
    THEN [exists |-> TRUE, file |-> two, file_offset |-> 4]
    ELSE IF condition = "truncated"
    THEN [exists |-> TRUE,
          file |-> ContainerFile(<<"block81">>, "truncated", xor_key),
          file_offset |-> 89]
    ELSE IF condition = "undecodable"
    THEN [exists |-> TRUE,
          file |-> ContainerFile(<<"tiny", "block81">>, "none", xor_key),
          file_offset |-> 0]
    ELSE IF condition = "trailing_bytes"
    THEN [exists |-> TRUE,
          file |-> ContainerFile(<<"block82", "block81">>, "none", xor_key),
          file_offset |-> 0]
    ELSE [exists |-> FALSE, file |-> <<>>, file_offset |-> 0]

(* One pass of the loop body of iterate_blocks, main.rs:474-500, for the *)
(* block at `height`: what is printed and whether the function returns   *)
(* an error.  event "" prints nothing.                                   *)
iterate_one(height, location, xor_key, start, end) ==
    IF height > start \/ height < end
    THEN [event |-> "", err |-> ""]
    ELSE IF ~location.exists
    THEN [event |-> "", err |-> "open"]
    ELSE LET r == read_next_block(location.file, xor_key,
                                  seek_to_offset(0, location.file_offset))
         IN IF r.kind = "Err" THEN [event |-> "", err |-> r.err]
            ELSE IF r.kind = "Some" THEN [event |-> "visited", err |-> ""]
            ELSE [event |-> "warning", err |-> ""]

(* BlockFileReader::read_block, block_iterator.rs:213-253: the file is   *)
(* read as it is stored.  TRUE when a block is returned.                 *)
read_block(location) ==
    /\ location.exists
    /\ LET header == BytesAt(location.file, location.file_offset, 8) IN
       /\ Len(header) = 8
       /\ SubSeq(header, 1, 4) = Magic
       /\ LET size == u32_from_le_bytes(SubSeq(header, 5, 8))
              block_data == BytesAt(location.file, location.file_offset + 8, size)
          IN /\ Len(block_data) = size
             /\ consensus_decode(block_data)

(* The loop body of block_iterator.rs:285-312 for one height. *)
scan_one(location) ==
    IF read_block(location) THEN [event |-> "visited", err |-> ""]
    ELSE [event |-> "error", err |-> ""]

RECURSIVE ConditionLists(_)
ConditionLists(n) ==
    IF n = 0 THEN {<<>>}
    ELSE { <<c>> \o rest : c \in BlockConditions, rest \in ConditionLists(n - 1) }

(* iterate_blocks reads with the key of xor.dat; block_iterator reads    *)
(* the files as stored, which are blocks when nothing is obfuscated.     *)
(* The tip is the highest height of the index; --end-height of           *)
(* block_iterator is absent (the tip) or 0.                              *)
IterRuns ==
    UNION { [program : {"iterate_blocks"},
             xor_key : {<<0, 0, 0, 0, 0, 0, 0, 0>>,
                        <<165, 2, 240, 15, 51, 204, 85, 170>>},
             blocks : ConditionLists(tip + 1),
             start : {tip, tip - 1} \cap Nat,
             end : {0, 1} \cap (0 .. tip)]
            \cup
            [program : {"block_iterator"},
             xor_key : {<<0, 0, 0, 0, 0, 0, 0, 0>>},
             blocks : ConditionLists(tip + 1),
             start : {0, 1} \cap (0 .. tip),
             end : {0, tip}]
          : tip \in 0 .. MaxTipHeight }

IterInit ==
    /\ it_in \in IterRuns
    /\ it_pc = (IF it_in.program = "iterate_blocks" THEN "run" ELSE "start")
    /\ it_next = (IF it_in.program = "iterate_blocks"
                  THEN Len(it_in.blocks) - 1 ELSE it_in.start)
    /\ it_log = <<>>
    /\ it_err = ""
    /\ BuildIdle
    /\ UtxoIdle
    /\ ExportIdle
    /\ PureIdle
    /\ ReaderIdle

(* iterate_blocks: the next height of iter_reverse, index.rs:56-60. *)
IterateBlock ==
    /\ it_pc = "run"
    /\ it_in.program = "iterate_blocks"
    /\ LET height == it_next
           r == iterate_one(height,
                            LocationOf(it_in.blocks[height + 1], it_in.xor_key),
                            it_in.xor_key, it_in.start, it_in.end)
       IN /\ it_err' = r.err
          /\ it_log' = (IF r.event = "" THEN it_log
                        ELSE Append(it_log, [height |-> height, event |-> r.event]))
          /\ it_pc' = (IF r.err # "" THEN "aborted"
                       ELSE IF height = 0 THEN "done" ELSE "run")
          /\ it_next' = (IF r.err # "" THEN height ELSE height - 1)
    /\ UNCHANGED it_in
    /\ UNCHANGED notIterVars

(* get_tip_height, block_iterator.rs:103-126: the highest height of the *)
(* active chain, an error when that is 0.                                *)
get_tip_height(blocks) == Len(blocks) - 1

(* block_iterator.rs:256-274: main up to the loop.  It ends with an     *)
(* error when the tip height is 0 or the range is empty.                 *)
ScanStart ==
    /\ it_pc = "start"
    /\ it_in.program = "block_iterator"
    /\ IF get_tip_height(it_in.blocks) = 0
       THEN it_pc' = "aborted" /\ it_err' = "tip_height"
       ELSE IF it_in.start > it_in.end
       THEN it_pc' = "aborted" /\ it_err' = "start_after_end"
       ELSE it_pc' = "run" /\ it_err' = it_err
    /\ UNCHANGED <<it_in, it_next, it_log>>
    /\ UNCHANGED notIterVars

(* block_iterator: the next height of start_height ..= end_height. *)
ScanBlock ==
    /\ it_pc = "run"
    /\ it_in.program = "block_iterator"
    /\ LET height == it_next
           r == scan_one(LocationOf(it_in.blocks[height + 1], it_in.xor_key))
       IN /\ it_err' = r.err
          /\ it_log' = Append(it_log, [height |-> height, event |-> r.event])
          /\ it_pc' = (IF height = it_in.end THEN "done" ELSE "run")
          /\ it_next' = height + 1
    /\ UNCHANGED it_in
    /\ UNCHANGED notIterVars

IterNext ==
    \/ IterateBlock
    \/ ScanStart
    \/ ScanBlock

-----------------------------------------------------------------------------
(* The specifications.  Each runs one part and holds the others still.   *)

SpecBuild == BuildInit /\ [][BuildNext]_vars

SpecUtxo == UtxoInit /\ [][UtxoNext]_vars

SpecExport == ExportInit /\ [][ExportNext]_vars

SpecFees == FeesInit /\ [][FeesNext]_vars

SpecFeeRates == FeeRatesInit /\ [][FeeRatesNext]_vars

SpecQuantiles == QuantilesInit /\ [][QuantilesNext]_vars

SpecKeys == KeysInit /\ [][KeysNext]_vars

SpecReader == ReaderInit /\ [][ReaderNext]_vars

SpecIterate == IterInit /\ [][IterNext]_vars

-----------------------------------------------------------------------------
(* Notions the claims about build_index are stated in.  They are defined  *)
(* on the containers (headers), not on the working map.                   *)

Discovered == DOMAIN headers

ZeroPrevBlocks == { x \in Discovered : headers[x] = ZeroHash }

SingleGenesis == Cardinality(ZeroPrevBlocks) = 1

(* No two discovered blocks name the same prev-hash. *)
NoForks == \A x, y \in Discovered : x # y => headers[x] # headers[y]

(* Number of prev-hash links from x back to a zero-prev block; -1 when the *)
(* walk leaves the discovered set first.                                   *)
RECURSIVE LinksFromGenesis(_)
LinksFromGenesis(x) ==
    IF x \notin Discovered THEN -1
    ELSE IF headers[x] = ZeroHash THEN 0
    ELSE LET d == LinksFromGenesis(headers[x]) IN
         IF d < 0 THEN -1 ELSE d + 1

(* The prev-hash walk from x reaches a non-zero hash that is in no        *)
(* container.                                                             *)
RECURSIVE WalkReachesAbsent(_)
WalkReachesAbsent(x) ==
    IF x = ZeroHash THEN FALSE
    ELSE IF x \notin Discovered THEN TRUE
    ELSE WalkReachesAbsent(headers[x])

(* The loop of main.rs:371-373 has passed every hash to get_block_height. *)
ResolutionDone ==
    \/ bpc = "resolve" /\ pending = {}
    \/ bpc \in {"linearize", "save", "done"}
    \/ bpc = "panic" /\ berr # "subtract_overflow"
    \/ bpc = "error" /\ berr \in {"no_known_heights", "fork_at_tip",
                                   "chain_broken", "save"}

(* Tip selection (main.rs:375-409) has run. *)
TipDecided == ResolutionDone /\ bpc # "resolve"

HeightOf(x) == blocks_by_hash[x].height

(* The hashes that hold the maximum Known height. *)
AtMaxKnownHeight ==
    { x \in DOMAIN blocks_by_hash :
        /\ IsKnown(HeightOf(x))
        /\ \A y \in DOMAIN blocks_by_hash :
              IsKnown(HeightOf(y)) => HeightOf(y).h <= HeightOf(x).h }

(* The resolution pass run in ascending hash order on the map as it is   *)
(* after the genesis was marked.                                         *)
RECURSIVE ResolveInOrder(_, _)
ResolveInOrder(map, todo) ==
    IF todo = {} THEN map
    ELSE LET x == CHOOSE y \in todo : \A z \in todo : y <= z IN
         ResolveInOrder(get_block_height(x, map).map, todo \ {x})

MapAfterGenesis ==
    [x \in Discovered |->
        [prev_hash |-> headers[x],
         height |-> IF x \in genesis_hash THEN Known(0) ELSE NotYetKnown]]

-----------------------------------------------------------------------------
(* C1: after every successful build_index the index it built (and any it  *)
(* stored is that index) holds an entry                                    *)
(* for every height in [0, tip_height] and none above it (tip_height + 1  *)
(* entries), tip_height being the resolved height of the selected tip.    *)
C1_DenseIndex ==
    bpc = "done" =>
        /\ tip_hash # {}
        /\ saved \subseteq {block_index}
        /\ \A t \in tip_hash :
              /\ IsKnown(HeightOf(t))
              /\ block_index.tip_height = HeightOf(t).h
              /\ DOMAIN block_index.blocks = 0 .. HeightOf(t).h
              /\ Cardinality(DOMAIN block_index.blocks) = HeightOf(t).h + 1

C1_Witness ==
    /\ bpc = "done"
    /\ block_index.tip_height >= 2
    /\ Cardinality(Discovered) > Cardinality(DOMAIN block_index.blocks)

(* C2 as claimed: in every discovered set with a single zero-prev genesis *)
(* and no forks, resolution gives EVERY block the height Known(number of  *)
(* prev-hash links from the genesis).                                     *)
C2_AllKnownAsClaimed ==
    (ResolutionDone /\ SingleGenesis /\ NoForks) =>
        \A x \in Discovered : HeightOf(x) = Known(LinksFromGenesis(x))

(* C2 amended: in every discovered set with a single zero-prev genesis    *)
(* and no forks, resolution gives every block whose prev-hash walk        *)
(* reaches the genesis the height Known(number of links from the genesis),*)
(* genesis = 0 and each child = parent + 1.                               *)
C2_HeightIsDistance ==
    (ResolutionDone /\ SingleGenesis /\ NoForks) =>
        \A x \in Discovered :
           /\ LinksFromGenesis(x) >= 0 =>
                 HeightOf(x) = Known(LinksFromGenesis(x))
           /\ (LinksFromGenesis(x) > 0 /\ IsKnown(HeightOf(x))) =>
                 HeightOf(x).h = HeightOf(headers[x]).h + 1

C2_Witness ==
    /\ ResolutionDone /\ SingleGenesis /\ NoForks
    /\ \E x \in Discovered : LinksFromGenesis(x) = 2 /\ HeightOf(x) = Known(2)

(* C3: for a fork-free single-genesis chain the final height state of     *)
(* every hash is the same whatever the order in which get_block_height    *)
(* was called on the hashes, and another resolution pass over the         *)
(* resolved map changes nothing.                                          *)
C3_OrderIndependent ==
    (ResolutionDone /\ SingleGenesis /\ NoForks) =>
        /\ blocks_by_hash = ResolveInOrder(MapAfterGenesis, Discovered)
        /\ \A x \in Discovered :
              get_block_height(x, blocks_by_hash).map = blocks_by_hash

(* The pass resolved the deepest block first, i.e. not in ascending order. *)
C3_Witness ==
    /\ ResolutionDone /\ SingleGenesis /\ NoForks
    /\ Cardinality(Discovered) >= 3
    /\ \E x \in Discovered : LinksFromGenesis(x) = 2
    /\ \A x \in Discovered : LinksFromGenesis(x) >= 0
    /\ LinksFromGenesis(last_call.hash) = 0

(* C4: when two or more hashes share the maximum Known height, build_index *)
(* fails with the fork error and selects no tip; a tip is selected only    *)
(* when exactly one hash holds the maximum Known height.                   *)
C4_ForkAtTipFails ==
    TipDecided =>
        /\ Cardinality(AtMaxKnownHeight) >= 2 =>
              (bpc = "error" /\ berr = "fork_at_tip" /\ tip_hash = {}
               /\ saved = {})
        /\ tip_hash # {} => (Cardinality(AtMaxKnownHeight) = 1
                             /\ tip_hash = AtMaxKnownHeight)

C4_Witness ==
    /\ TipDecided
    /\ Cardinality(AtMaxKnownHeight) >= 2
    /\ \E x \in AtMaxKnownHeight : HeightOf(x).h >= 1

(* C5: after resolution every block whose prev-hash walk reaches a        *)
(* (non-zero) hash absent from the discovered set is Orphaned, and no     *)
(* Orphaned hash is the block_hash of an entry of the index, built or     *)
(* saved.                                                                 *)
C5_OrphansExcluded ==
    /\ ResolutionDone =>
          \A x \in Discovered : WalkReachesAbsent(x) => HeightOf(x) = Orphaned
    /\ \A idx \in {block_index} \cup saved :
          \A k \in DOMAIN idx.blocks :
             /\ idx.blocks[k] \in DOMAIN blocks_by_hash
             /\ HeightOf(idx.blocks[k]) # Orphaned

C5_Witness ==
    /\ bpc = "done"
    /\ \E x, y \in Discovered :
          /\ headers[y] = x
          /\ headers[x] \notin Discovered /\ headers[x] # ZeroHash
          /\ HeightOf(x) = Orphaned /\ HeightOf(y) = Orphaned
    /\ block_index.tip_height >= 1

(* C6: a height state only moves from NotYetKnown to Known(h) or to       *)
(* Orphaned: once a hash is Known(h) or Orphaned no step changes it, and  *)
(* a get_block_height call on an already-resolved hash returns that state *)
(* and leaves the map as it was.                                          *)
C6_Step ==
    /\ \A x \in DOMAIN blocks_by_hash :
          HeightOf(x) # NotYetKnown =>
             /\ x \in DOMAIN blocks_by_hash'
             /\ blocks_by_hash'[x].height = HeightOf(x)
    /\ (last_call' # last_call /\ last_call'.before # NotYetKnown) =>
          /\ last_call'.ret = last_call'.before
          /\ ~last_call'.mutated
          /\ blocks_by_hash' = blocks_by_hash

C6_Monotonic == [][C6_Step]_vars

(* A call on a hash that an earlier call (on a descendant) had resolved. *)
C6_Witness ==
    /\ bpc = "resolve"
    /\ last_call.hash \in Discovered
    /\ last_call.before \in {Known(1), Orphaned}
    /\ last_call.ret = last_call.before

(* C7: whenever build_index fails it has saved no index; the index file   *)
(* is written only after linearization has completed (the walk has        *)
(* reached the zero prev-hash).                                           *)
C7_NoIndexOnFailure ==
    /\ bpc \in {"error", "panic"} => saved = {}
    /\ saved # {} =>
          /\ bpc = "done"
          /\ saved = {block_index}
          /\ blocks_by_hash[current_hash].prev_hash = ZeroHash
          /\ current_hash \in { block_index.blocks[k] : k \in DOMAIN block_index.blocks }

C7_Witness ==
    /\ bpc = "error" /\ berr = "fork_at_tip"
    /\ Cardinality(Discovered) >= 3

C7_WitnessNoGenesis ==
    bpc = "error" /\ berr = "genesis_not_found" /\ Discovered # {}

(* The walk was completed and save_to_file returned an error. *)
C7_WitnessSaveFailed ==
    /\ bpc = "error" /\ berr = "save"
    /\ saved = {}
    /\ block_index.tip_height >= 1

(* build_index returned Ok and the index was not stored. *)
C7_WitnessNothingStored ==
    /\ bpc = "done"
    /\ saved = {}
    /\ block_index.tip_height >= 1

(* The scan met a record with a size below 80 after other headers. *)
C7_WitnessScanPanic ==
    /\ bpc = "panic" /\ berr = "subtract_overflow"
    /\ Discovered # {}
    /\ saved = {}

-----------------------------------------------------------------------------
(* Claims about UtxoSet, checked under SpecUtxo: every sequence of calls  *)
(* of add_output, mark_for_removal, get_value and commit_removals.        *)

ExemptHeight(h) == h = DupCoinbaseHeightA \/ h = DupCoinbaseHeightB

(* C8: right after add_output(txid, index, value, h) has succeeded,       *)
(* get_value(txid, index) returns value; and after                        *)
(* mark_for_removal(txid, index) followed by commit_removals(),           *)
(* get_value(txid, index) returns no value.                               *)
C8_AddThenGet_MarkCommitThenMiss ==
    /\ (ulast.op = "add_output" /\ ulast.ok) =>
          get_value(tracker, ulast.txid, ulast.vout) = {ulast.value}
    /\ ulast.op = "commit_removals" =>
          \A m \in last_mark : get_value(tracker, m[1], m[2]) = {}

(* The output was in the active set when it was marked, and the commit   *)
(* took it out of a set that holds another output.                       *)
C8_Witness ==
    /\ ulast.op = "commit_removals"
    /\ last_mark # {}
    /\ \A m \in last_mark : m[3]
    /\ DOMAIN tracker.active # {}
    /\ \A m \in last_mark : utxo_key(m[1], m[2]) \notin DOMAIN tracker.active

C8_WitnessAdd ==
    /\ ulast.op = "add_output" /\ ulast.ok /\ ~ulast.present
    /\ get_value(tracker, ulast.txid, ulast.vout) = {ulast.value}

(* C9: add_output on a key already in the active set returns the          *)
(* collision error and leaves the active set unchanged when the height is *)
(* neither 91842 nor 91880; at height 91842 or 91880 the call succeeds    *)
(* and the stored value becomes the later value.                          *)
C9_Step ==
    (/\ ulast'.op = "add_output"
     /\ <<tracker, ulast>>' # <<tracker, ulast>>
     /\ utxo_key(ulast'.txid, ulast'.vout) \in DOMAIN tracker.active)
    =>
    IF ExemptHeight(ulast'.height)
    THEN /\ ulast'.ok
         /\ get_value(tracker', ulast'.txid, ulast'.vout) = {ulast'.value}
         /\ DOMAIN tracker'.active = DOMAIN tracker.active
         /\ \A k \in DOMAIN tracker.active :
               k # utxo_key(ulast'.txid, ulast'.vout) =>
                  tracker'.active[k] = tracker.active[k]
    ELSE /\ ~ulast'.ok
         /\ tracker'.active = tracker.active

C9_CollisionPolicy == [][C9_Step]_vars

C9_Witness ==
    /\ ulast.op = "add_output" /\ ulast.present /\ ~ulast.ok
    /\ ~ExemptHeight(ulast.height)
    /\ get_value(tracker, ulast.txid, ulast.vout) # {ulast.value}

C9_WitnessExempt ==
    /\ ulast.op = "add_output" /\ ulast.present /\ ulast.ok
    /\ ulast.height = DupCoinbaseHeightB
    /\ get_value(tracker, ulast.txid, ulast.vout) = {ulast.value}

-----------------------------------------------------------------------------
(* Claims about the per-block tracker protocol of export_arrow_file,     *)
(* checked under SpecExport.                                             *)

(* The tracker calls cur_block gives rise to, in call order. *)
ExpectedAdds ==
    [i \in 1 .. Len(AddedOutputs(cur_block)) |->
        Event("add_output", AddedOutputs(cur_block)[i].txid,
              AddedOutputs(cur_block)[i].vout)]

ExpectedMarks ==
    [i \in 1 .. Len(SpentInputs(cur_block)) |->
        Event("mark_for_removal", SpentInputs(cur_block)[i].txid,
              SpentInputs(cur_block)[i].vout)]

(* Outputs cur_block adds to the tracker that an input of one of its     *)
(* own non-coinbase transactions spends.                                 *)
SameBlockSpends ==
    { AddedOutputs(cur_block)[i] : i \in
        { j \in 1 .. Len(AddedOutputs(cur_block)) :
            \E k \in 1 .. Len(SpentInputs(cur_block)) :
                /\ SpentInputs(cur_block)[k].txid = AddedOutputs(cur_block)[j].txid
                /\ SpentInputs(cur_block)[k].vout = AddedOutputs(cur_block)[j].vout } }

TrackerEnabled == utxo_set # {}
TheTracker == CHOOSE u \in utxo_set : TRUE

(* Number of blocks whose values the builders hold. *)
RowsAppended == Len(builders[1])

(* The block at x_height - 1 has gone through the whole loop body. *)
BlockFinished == xpc \in {"read", "done"} /\ x_height > 0

(* C10: during an export with the tracker enabled, blocks are taken in   *)
(* ascending height order; when a block's metrics are extracted every    *)
(* add_output call for the block has been made and no other tracker call;*)
(* every mark_for_removal call for the block comes after the extraction  *)
(* and exactly one commit_removals follows them.  Hence an output that   *)
(* the block adds and one of its own inputs spends is found by get_value *)
(* (with its value) during the extraction and is absent from the active  *)
(* set once the block is finished.                                       *)
C10_AddExtractMarkCommit ==
    TrackerEnabled =>
        /\ xpc \in {"add", "extract"} => RowsAppended = x_height
        /\ xpc = "remove" => RowsAppended = x_height + 1
        /\ xpc = "extract" =>
              /\ xlog = ExpectedAdds
              /\ \A o \in SameBlockSpends :
                    get_value(TheTracker, o.txid, o.vout) = {o.value}
        /\ xpc = "remove" => xlog = ExpectedAdds \o <<Event("extract", NoTxid, 0)>>
        /\ BlockFinished =>
              /\ xlog = ExpectedAdds \o <<Event("extract", NoTxid, 0)>>
                        \o ExpectedMarks \o <<Event("commit_removals", NoTxid, 0)>>
              /\ RowsAppended = x_height
              /\ \A o \in SameBlockSpends :
                    /\ get_value(TheTracker, o.txid, o.vout) = {}
                    /\ utxo_key(o.txid, o.vout) \notin DOMAIN TheTracker.active

(* A block with a same-block spend was finished at height 1, after      *)
(* another block. *)
C10_Witness ==
    /\ TrackerEnabled
    /\ BlockFinished
    /\ x_height = 2
    /\ SameBlockSpends # {}

(* The metrics of a block with a same-block spend are about to be       *)
(* extracted. *)
C10_WitnessExtract ==
    /\ TrackerEnabled
    /\ xpc = "extract"
    /\ SameBlockSpends # {}
    /\ \E i \in 1 .. Len(x_in.columns) : x_in.columns[i].base = "fee_rates"

-----------------------------------------------------------------------------
(* Claims about the subsidy and the block fees, checked under SpecFees.  *)

(* a * 2^k by k doublings: [overflow, value]. *)
RECURSIVE TimesPow2(_, _)
TimesPow2(a, k) ==
    IF k = 0 THEN [overflow |-> FALSE, value |-> a]
    ELSE LET d == U64Add(a, a)
             rest == TimesPow2(d.value, k - 1)
         IN [overflow |-> d.overflow \/ rest.overflow, value |-> rest.value]

(* q = floor(n / 2^k): q * 2^k <= n < (q + 1) * 2^k. *)
IsFloorDivPow2(q, n, k) ==
    LET low == TimesPow2(q, k) IN
    /\ ~low.overflow
    /\ U64Geq(n, low.value)
    /\ U64Less(U64Sub(n, low.value), TimesPow2(U64Of(1), k).value)

FiveBillion == Satoshis(<<5, 0, 0, 0, 0, 0, 0, 0, 0, 0>>)

RewardReturned == p_pc = "called" /\ p_out.fn = "get_block_reward"

(* C11: get_block_reward(height) is floor(5_000_000_000 /                *)
(* 2^floor(height / 210_000)) satoshis when floor(height / 210_000) < 33 *)
(* and 0 otherwise; subsidy(0) = 5_000_000_000, subsidy(210_000) =       *)
(* 2_500_000_000, subsidy(210_000 * 33) = 0 = subsidy(210_000 * 33 + 1). *)
C11_Subsidy ==
    RewardReturned =>
        /\ ~p_out.panic
        /\ IF p_in.height \div 210000 < 33
           THEN IsFloorDivPow2(p_out.value, FiveBillion, p_in.height \div 210000)
           ELSE p_out.value = U64Zero
        /\ p_in.height = 0 => p_out.value = FiveBillion
        /\ p_in.height = 210000 =>
              p_out.value = Satoshis(<<2, 5, 0, 0, 0, 0, 0, 0, 0, 0>>)
        /\ p_in.height = 210000 * 33 => p_out.value = U64Zero
        /\ p_in.height = 210000 * 33 + 1 => p_out.value = U64Zero

(* The last height that still pays: one satoshi after 32 halvings. *)
C11_Witness ==
    /\ RewardReturned
    /\ p_in.height = 210000 * 33 - 1
    /\ p_out.value = U64Of(1)

C11_WitnessZero ==
    /\ RewardReturned
    /\ p_in.height = 210000 * 33
    /\ p_out.value = U64Zero

(* The sum of u64 values as a number of five limbs (no wrap). *)
RECURSIVE ExactSum(_)
ExactSum(values) ==
    IF values = <<>> THEN Append(U64Zero, 0)
    ELSE AddLimbs(Append(values[1], 0), ExactSum(Tail(values)), 1, 0).limbs

(* max(0, a - b) on numbers of five limbs. *)
ClampedDifference(a, b) ==
    IF LessFrom(a, b, Len(a)) THEN Append(U64Zero, 0) ELSE SubLimbs(a, b, 1, 0)

FeesReturned == p_pc = "called" /\ p_out.fn = "calculate_block_fees"

(* The coinbase's outputs sum to 2^64 or more. *)
CoinbaseSumOverflows ==
    /\ p_in.transactions # <<>>
    /\ SumU64(p_in.transactions[1].output).overflow

(* C12: calculate_block_fees(transactions, height) returns 0 for an      *)
(* empty transaction list and otherwise max(0, sum of the coinbase's     *)
(* output values - subsidy(height)); it never fails.                     *)
C12_FeesAsClaimed ==
    FeesReturned =>
        /\ ~p_out.panic
        /\ p_in.transactions = <<>> => p_out.value = U64Zero
        /\ p_in.transactions # <<>> =>
              Append(p_out.value, 0) =
                 ClampedDifference(ExactSum(p_in.transactions[1].output),
                                   Append(get_block_reward(p_in.height), 0))

(* C12 on the inputs whose coinbase sum stays below 2^64: there the      *)
(* stated value is returned, and a coinbase paying less than the subsidy *)
(* yields 0 without failing.                                             *)
C12_FeesWithoutOverflow ==
    (FeesReturned /\ ~CoinbaseSumOverflows) => C12_FeesAsClaimed

(* Two outputs of 2^63 satoshis at height 0: the sum is 2^64, the fees   *)
(* would be 2^64 - 5_000_000_000; the call panics or returns 0.          *)
C12_Witness ==
    /\ FeesReturned
    /\ p_in.height = 0
    /\ p_in.transactions =
          <<FeeTx(<<  <<0, 0, 0, LimbBase \div 2>>, <<0, 0, 0, LimbBase \div 2>>  >>)>>
    /\ p_out.panic \/ p_out.value = U64Zero

(* A coinbase paying less than the subsidy. *)
C12_WitnessBelowSubsidy ==
    /\ FeesReturned
    /\ p_in.height = 0
    /\ p_in.transactions = <<FeeTx(<<U64Of(1)>>)>>
    /\ ~p_out.panic /\ p_out.value = U64Zero

-----------------------------------------------------------------------------
(* Claims about the requests and the rows of an export, checked under    *)
(* SpecExport.                                                           *)

(* The request names fee_rates or utxo_size, with or without quantiles. *)
TrackerMetricNamed ==
    \E i \in 1 .. Len(x_in.columns) :
        x_in.columns[i].base \in {"fee_rates", "utxo_size"}

(* C13: a request that names a tracker-dependent metric (fee_rates or    *)
(* utxo_size, with or without a quantile list) while the tracker is not  *)
(* enabled ends in an error with no block read and nothing written; the  *)
(* extraction of such a metric is never reached without a tracker.       *)
C13_RejectedUpFront ==
    /\ (~x_in.utxo /\ TrackerMetricNamed) =>
          /\ xpc \in {"start", "error"}
          /\ xpc = "error" => xerr # ""
          /\ x_chain = <<>>
          /\ cur_block = <<>>
          /\ builders = <<>>
          /\ out_file = {}
    /\ (xpc \in {"add", "extract", "remove"} /\ TrackerMetricNamed) =>
          utxo_set # {}

(* utxo_size named after another column, no tracker: rejected. *)
C13_Witness ==
    /\ ~x_in.utxo
    /\ x_in.columns = <<ColHeight, ColUtxoSize>>
    /\ xpc = "error"
    /\ xerr = "requires_utxo"

(* fee_rates with a quantile list, no tracker: rejected. *)
C13_WitnessQuantiles ==
    /\ ~x_in.utxo
    /\ x_in.columns = <<ColFeeRates(<<0, 50>>), ColTxCount>>
    /\ xpc = "error"
    /\ xerr = "requires_utxo"

(* The tracker as it is when the block at position i of the chain is     *)
(* extracted: the earlier blocks added and removed, block i added.       *)
RECURSIVE TrackerAtExtraction(_, _)
TrackerAtExtraction(chain, i) ==
    LET before ==
            IF i = 1 THEN UtxoSetNew
            ELSE commit_removals(
                     MarkAll(TrackerAtExtraction(chain, i - 1),
                             SpentInputs(chain[i - 1]), <<>>).set)
    IN AddAll(before, AddedOutputs(chain[i]), i - 1, <<>>).set

(* The values the block at position i of the chain gives. *)
ValuesOfBlock(i) ==
    ExtractRow(x_in.columns, BlockAt(i - 1, x_chain[i]), LocationAt(i - 1),
               i - 1,
               IF x_in.utxo THEN {TrackerAtExtraction(x_chain, i)} ELSE {}).row

(* Number of expanded columns: one per single metric, one per quantile. *)
RECURSIVE ExpandedCount(_)
ExpandedCount(columns) ==
    IF columns = <<>> THEN 0
    ELSE (IF columns[1].bracket THEN Len(columns[1].quantiles) ELSE 1)
         + ExpandedCount(Tail(columns))

(* C14: a successful export over heights [0, max_height] writes exactly  *)
(* max_height + 1 rows, row i holding the values of the block at height  *)
(* i; there is one expanded column per single metric and per quantile,   *)
(* and all hold the same number of values.  (With tx_count and a chain   *)
(* of three blocks: three rows, each the block's transaction count.)     *)
C14_RowPerBlock ==
    xpc = "done" =>
        /\ out_file = {builders}
        /\ Len(builders) = ExpandedCount(x_in.columns)
        /\ \A c \in 1 .. Len(builders) : Len(builders[c]) = export_max_height + 1
        /\ Len(x_chain) = export_max_height + 1
        /\ \A i \in 1 .. export_max_height + 1 :
              /\ [c \in 1 .. Len(builders) |-> builders[c][i]] = ValuesOfBlock(i)
              /\ x_in.columns = <<ColTxCount>> =>
                    builders[1][i] = F64Of(Len(x_chain[i]))
              /\ x_in.columns[1] = ColHeight => builders[1][i] = F64Of(i - 1)

(* tx_count exported over a chain of three blocks whose transaction      *)
(* counts differ. *)
C14_Witness ==
    /\ xpc = "done"
    /\ x_in.columns = <<ColTxCount>>
    /\ export_max_height = 2
    /\ Len(builders[1]) = 3
    /\ builders[1][1] # builders[1][2]

(* Two quantile columns and a single column, with the tracker. *)
C14_WitnessExpanded ==
    /\ xpc = "done"
    /\ x_in.columns = <<ColFeeRates(<<0, 50>>), ColTxCount>>
    /\ Len(builders) = 3
    /\ Len(builders[1]) = 2
    /\ builders[1][2] # 0

-----------------------------------------------------------------------------
(* Claims about BlockFileReader.                                         *)

(* The byte the writer obfuscated at absolute file position p. *)
PlainByte(p) == ByteXor(r_file[p + 1], r_key[(p % 8) + 1])

PlainBytes(pos, n) == [i \in 1 .. n |-> PlainByte(pos + i - 1)]

Available(pos) == IF pos >= Len(r_file) THEN 0 ELSE Len(r_file) - pos

RawZero(pos) == \A i \in 1 .. 8 : r_file[pos + i] = 0

IsRead(op) == op \in {"read_next_block", "read_next_header"}

(* What a read at offset o returns, told from the file, the key and o    *)
(* alone: the kinds of result it may have, and the bytes it decodes.     *)
ExpectedKinds(op, o) ==
    IF Available(o) < 8 THEN {"None"}
    ELSE IF op = "read_next_header" /\ RawZero(o) THEN {"None"}
    ELSE IF PlainBytes(o, 4) # Magic THEN {"Err"}
    ELSE LET size == u32_from_le_bytes(PlainBytes(o + 4, 4)) IN
         IF op = "read_next_block"
         THEN IF Available(o + 8) < size THEN {"Err"}
              ELSE IF size = 81 /\ PlainByte(o + 88) = 0 THEN {"Some"}
              ELSE {"Err"}
         ELSE IF Available(o + 8) < 80 THEN {"Err"}
              ELSE IF size < 80 THEN {"Some", "panic"}
              ELSE {"Some"}

ExpectedRead(res, op, o) ==
    /\ res.offset = o
    /\ res.kind \in ExpectedKinds(op, o)
    /\ res.prefix # NoBytes => res.prefix = PlainBytes(o, 8)
    /\ res.kind = "Some" =>
          /\ res.size = u32_from_le_bytes(PlainBytes(o + 4, 4))
          /\ Len(res.data) = (IF op = "read_next_block" THEN res.size ELSE 80)
          /\ res.data = PlainBytes(o + 8, Len(res.data))

(* C15: seek_to_offset(o) followed by read_next_block or                 *)
(* read_next_header returns what the file, the key and o alone           *)
(* determine, whatever was read or sought before: the byte at absolute   *)
(* position p is decoded with key[p mod 8].                              *)
C15_SeekThenRead ==
    [][(r_last.op = "seek_to_offset" /\ IsRead(r_last'.op))
          => ExpectedRead(r_last'.res, r_last'.op, r_last.res.offset)]_vars

(* A block read after a seek to a record that starts off the key's       *)
(* period, under a key of mixed bytes.                                   *)
C15_Witness ==
    /\ r_last.op = "read_next_block"
    /\ r_last.after = "seek_to_offset"
    /\ r_last.res.kind = "Some"
    /\ r_last.res.offset % 8 # 0
    /\ r_key[1] # r_key[2]

(* The same for a header read. *)
C15_WitnessHeader ==
    /\ r_last.op = "read_next_header"
    /\ r_last.after = "seek_to_offset"
    /\ r_last.res.kind = "Some"
    /\ r_last.res.offset % 8 # 0
    /\ r_key[1] # r_key[2]

(* C16: the bytes a read decoded, put through the same transform with    *)
(* the same key at the same absolute offset, are the bytes of the file   *)
(* again.                                                                *)
C16_RoundTrip ==
    (IsRead(r_last.op) /\ r_last.res.prefix # NoBytes) =>
        /\ r_last.res.raw_prefix = BytesAt(r_file, r_last.res.offset, 8)
        /\ deobfuscate_data(r_last.res.prefix, r_last.res.offset, r_key)
              = r_last.res.raw_prefix
        /\ r_last.res.data # NoBytes =>
              /\ r_last.res.raw_data
                    = BytesAt(r_file, r_last.res.offset + 8, Len(r_last.res.data))
              /\ deobfuscate_data(r_last.res.data, r_last.res.offset + 8, r_key)
                    = r_last.res.raw_data

(* A whole record decoded under a key of mixed bytes, the decoded bytes  *)
(* differing from the stored ones.                                       *)
C16_Witness ==
    /\ IsRead(r_last.op)
    /\ r_last.res.kind = "Some"
    /\ r_last.res.offset > 0
    /\ r_last.res.data # r_last.res.raw_data
    /\ r_last.res.prefix # r_last.res.raw_prefix

AllZero(bytes) == \A i \in 1 .. Len(bytes) : bytes[i] = 0

MagicMismatch(res) ==
    SubSeq(deobfuscate_data(res.raw_prefix, res.offset, r_key), 1, 4) # Magic

(* C20: read_next_header returns None when fewer than 8 bytes are left,  *)
(* None when the 8 raw bytes are all zero whatever the key, and an error *)
(* for any other prefix whose decoded magic is not F9 BE B4 D9;          *)
(* read_next_block returns an error for every 8-byte prefix whose        *)
(* decoded magic is not F9 BE B4 D9, an all-zero prefix included.        *)
C20_PrefixOutcome ==
    /\ r_last.op = "read_next_header" =>
          /\ r_last.res.raw_prefix = BytesAt(r_file, r_last.res.offset, 8)
          /\ Len(r_last.res.raw_prefix) < 8 =>
                r_last.res.kind = "None" /\ r_last.res.err = ""
          /\ (Len(r_last.res.raw_prefix) = 8 /\ AllZero(r_last.res.raw_prefix)) =>
                r_last.res.kind = "None" /\ r_last.res.err = ""
          /\ (/\ Len(r_last.res.raw_prefix) = 8
              /\ ~AllZero(r_last.res.raw_prefix)
              /\ MagicMismatch(r_last.res)) =>
                r_last.res.kind = "Err"
    /\ r_last.op = "read_next_block" =>
          /\ r_last.res.raw_prefix = BytesAt(r_file, r_last.res.offset, 8)
          /\ (Len(r_last.res.raw_prefix) = 8 /\ MagicMismatch(r_last.res)) =>
                r_last.res.kind = "Err"

(* Zero padding under a key of mixed bytes: the header read ends the     *)
(* scan quietly although the decoded magic is wrong.                     *)
C20_Witness ==
    /\ r_last.op = "read_next_header"
    /\ Len(r_last.res.raw_prefix) = 8
    /\ AllZero(r_last.res.raw_prefix)
    /\ MagicMismatch(r_last.res)
    /\ r_last.res.kind = "None"

(* The same padding read as a block is an error. *)
C20_WitnessBlock ==
    /\ r_last.op = "read_next_block"
    /\ Len(r_last.res.raw_prefix) = 8
    /\ AllZero(r_last.res.raw_prefix)
    /\ MagicMismatch(r_last.res)
    /\ r_last.res.kind = "Err"

(* A header read of a prefix that is neither padding nor a magic. *)
C20_WitnessBadMagic ==
    /\ r_last.op = "read_next_header"
    /\ Len(r_last.res.raw_prefix) = 8
    /\ ~AllZero(r_last.res.raw_prefix)
    /\ MagicMismatch(r_last.res)
    /\ r_last.res.kind = "Err"

(* A header read with fewer than eight bytes left. *)
C20_WitnessShort ==
    /\ r_last.op = "read_next_header"
    /\ Len(r_last.res.raw_prefix) \in 1 .. 7
    /\ r_last.res.kind = "None"


-----------------------------------------------------------------------------
(* Claims about staging and committing removals.                         *)

(* C19: mark_for_removal leaves the active set as it is (get_value of    *)
(* the staged key returns what it returned before) and adds the key to   *)
(* the staging set; get_value changes nothing; commit_removals removes   *)
(* from the active set exactly the staged keys, leaves every other entry *)
(* and its value as it is, and leaves the staging set empty.             *)
C19_StageThenCommit ==
    [][/\ ulast'.op = "mark_for_removal" =>
            /\ tracker'.active = tracker.active
            /\ get_value(tracker', ulast'.txid, ulast'.vout)
                  = get_value(tracker, ulast'.txid, ulast'.vout)
            /\ tracker'.to_remove
                  = tracker.to_remove \cup {utxo_key(ulast'.txid, ulast'.vout)}
       /\ ulast'.op = "get_value" => tracker' = tracker
       /\ ulast'.op = "commit_removals" =>
            /\ DOMAIN tracker'.active = DOMAIN tracker.active \ tracker.to_remove
            /\ \A k \in DOMAIN tracker'.active :
                  tracker'.active[k] = tracker.active[k]
            /\ tracker'.to_remove = {}]_vars

(* A commit that removed the key staged just before it while another     *)
(* entry stayed.                                                         *)
C19_Witness ==
    /\ ulast.op = "commit_removals"
    /\ \E m \in last_mark :
          /\ m[3]
          /\ utxo_key(m[1], m[2]) \notin DOMAIN tracker.active
    /\ DOMAIN tracker.active # {}
    /\ tracker.to_remove = {}

(* Two keys staged, both still active. *)
C19_WitnessStaged ==
    /\ ulast.op = "mark_for_removal"
    /\ Cardinality(tracker.to_remove) = 2
    /\ tracker.to_remove \subseteq DOMAIN tracker.active
    /\ Cardinality(DOMAIN tracker.active) = 2


-----------------------------------------------------------------------------
(* Claims about calculate_quantiles.                                     *)

QuantilesReturned == p_pc = "called" /\ p_out.fn = "calculate_quantiles"

OneToFive == Samples("whole", 5)

(* x <= y *)
F64AtMost(x, y) == ~F64Less(y, x)

(* The position q/100 * (n - 1) in a list of n values, positions counted *)
(* from 0, as the number it is (q an f64, the quotient not rounded):     *)
(* its whole part, and whether it is whole.                              *)
ExactPosition(q, n) ==
    Only({ [floor |-> NatOf(d.quot), whole |-> d.rem = <<>>] :
             d \in { DigitsDiv(
                       DigitsMul(ShiftLeft(q.m, IF q.e > 0 THEN q.e ELSE 0),
                                 DigitsOf(n - 1)),
                       ShiftLeft(DigitsOf(100),
                                 IF q.e < 0 THEN 0 - q.e ELSE 0)) } })

(* The element of data after the one at position k, the last one if      *)
(* there is none, and the element before it, the first one if there is   *)
(* none.                                                                 *)
NextOf(data, k) == data[IF k + 2 <= Len(data) THEN k + 2 ELSE Len(data)]
PrevOf(data, k) == data[IF k >= 1 THEN k ELSE 1]

(* What every call gives: one value per quantile, 0 each on an empty     *)
(* list, the first element for q = 0 and the last for q = 100, and the   *)
(* values of the example.                                                *)
QuantilesBasics(data, qs, out) ==
    /\ Len(out) = Len(qs)
    /\ \A i \in 1 .. Len(qs) :
          /\ data = <<>> => out[i] = F64Zero
          /\ data # <<>> =>
                /\ qs[i] = F64Zero => out[i] = data[1]
                /\ qs[i] = F64Of(100) => out[i] = data[Len(data)]
          /\ data = OneToFive =>
                /\ qs[i] = F64Of(50) => out[i] = F64Of(3)
                /\ qs[i] = F64Of(0) => out[i] = F64Of(1)
                /\ qs[i] = F64Of(100) => out[i] = F64Of(5)
                /\ qs[i] = F64Of(25) => out[i] = F64Of(2)

(* C18: calculate_quantiles on an ascending list of n >= 1 values gives  *)
(* for each q the element at position q/100 * (n-1) when that is whole   *)
(* and otherwise a blend of its two neighbours, which lies between them; *)
(* q = 0 gives the first element, q = 100 the last; [1,2,3,4,5] gives 3  *)
(* for 50, 1 for 0, 5 for 100, 2 for 25; an empty list gives 0 for every *)
(* quantile.                                                             *)
C18_ElementAtWholePosition ==
    QuantilesReturned =>
        LET data == p_in.sorted_data
            qs == p_in.quantiles
            out == p_out.value
        IN /\ QuantilesBasics(data, qs, out)
           /\ data # <<>> =>
                 \A i \in 1 .. Len(qs) :
                    LET p == ExactPosition(qs[i], Len(data)) IN
                    IF p.whole THEN out[i] = data[p.floor + 1]
                    ELSE /\ F64AtMost(data[p.floor + 1], out[i])
                         /\ F64AtMost(out[i], data[p.floor + 2])

(* C18, as far as it holds: for a list of 25 values at most the value    *)
(* for q is the element at position q/100 * (n-1) when that is whole and *)
(* otherwise lies between its two neighbours; for a list of any length   *)
(* it lies between the two neighbours of a position that is not whole,   *)
(* and between the elements before and after a position that is whole;   *)
(* q = 0 gives the first element, q = 100 the last; [1,2,3,4,5] gives 3  *)
(* for 50, 1 for 0, 5 for 100, 2 for 25; an empty list gives 0 for every *)
(* quantile.                                                             *)
C18_Quantiles ==
    QuantilesReturned =>
        LET data == p_in.sorted_data
            qs == p_in.quantiles
            out == p_out.value
        IN /\ QuantilesBasics(data, qs, out)
           /\ data # <<>> =>
                 \A i \in 1 .. Len(qs) :
                    LET p == ExactPosition(qs[i], Len(data)) IN
                    IF p.whole
                    THEN /\ Len(data) <= 25 => out[i] = data[p.floor + 1]
                         /\ F64AtMost(PrevOf(data, p.floor), out[i])
                         /\ F64AtMost(out[i], NextOf(data, p.floor))
                    ELSE /\ F64AtMost(data[p.floor + 1], out[i])
                         /\ F64AtMost(out[i], data[p.floor + 2])

(* 26 values 1.0 .. 26.0 and q = 56: the position 0.56 * 25 is 14, the   *)
(* element there is 15.0, and the value returned is above it.            *)
C18_Witness ==
    /\ QuantilesReturned
    /\ p_in.sorted_data = Samples("whole", 26)
    /\ p_in.quantiles = <<F64Of(56)>>
    /\ ExactPosition(F64Of(56), 26) = [floor |-> 14, whole |-> TRUE]
    /\ p_out.value # <<F64Of(15)>>
    /\ F64Less(F64Of(15), p_out.value[1])
    /\ F64Less(p_out.value[1], F64Div(F64Of(15000001), F64Of(1000000)))

(* 51 values 1.0 .. 51.0 and q = 58: the position 0.58 * 50 is 29, the   *)
(* element there is 30.0, and the value returned is below it.            *)
C18_WitnessBelow ==
    /\ QuantilesReturned
    /\ p_in.sorted_data = Samples("whole", 51)
    /\ p_in.quantiles = <<F64Of(58)>>
    /\ ExactPosition(F64Of(58), 51) = [floor |-> 29, whole |-> TRUE]
    /\ F64Less(p_out.value[1], F64Of(30))
    /\ F64Less(F64Of(29), p_out.value[1])

(* The stated example, four quantiles in one call. *)
C18_WitnessExample ==
    /\ QuantilesReturned
    /\ p_in.sorted_data = OneToFive
    /\ p_in.quantiles = <<F64Of(0), F64Of(25), F64Of(50), F64Of(100)>>
    /\ p_out.value = <<F64Of(1), F64Of(2), F64Of(3), F64Of(5)>>

(* A position between two different neighbours: the result is neither. *)
C18_WitnessBlend ==
    /\ QuantilesReturned
    /\ p_in.sorted_data = Samples("squares", 3)
    /\ p_in.quantiles = <<F64Of(10)>>
    /\ F64Less(F64Of(1), p_out.value[1])
    /\ F64Less(p_out.value[1], F64Of(4))

(* A quantile that is not a whole number, at a whole position: 12.5 of   *)
(* nine values is the second.                                            *)
C18_WitnessFraction ==
    /\ QuantilesReturned
    /\ p_in.sorted_data = Samples("thirds", 9)
    /\ p_in.quantiles = <<ParseF64(125, 10)>>
    /\ p_out.value = <<Sample("thirds", 2)>>

(* The empty list. *)
C18_WitnessEmpty ==
    /\ QuantilesReturned
    /\ p_in.sorted_data = <<>>
    /\ p_in.quantiles = <<F64Of(0), F64Of(25), F64Of(50), F64Of(100)>>
    /\ p_out.value = <<F64Zero, F64Zero, F64Zero, F64Zero>>


-----------------------------------------------------------------------------
(* Claims about iteration over an index.                                 *)

IterHeights == 0 .. Len(it_in.blocks) - 1

InRange(h) ==
    IF it_in.program = "iterate_blocks"
    THEN it_in.end <= h /\ h <= it_in.start
    ELSE it_in.start <= h /\ h <= it_in.end

ConditionAt(h) == it_in.blocks[h + 1]

Logged(h, event) ==
    \E i \in 1 .. Len(it_log) : it_log[i] = [height |-> h, event |-> event]

(* The program can read the block at h: it is intact, or block_iterator  *)
(* finds bytes after it in its payload.                                  *)
CanBeRead(h) ==
    \/ ConditionAt(h) = "ok"
    \/ it_in.program = "block_iterator" /\ ConditionAt(h) = "trailing_bytes"

(* Errors of block_iterator before its loop; no block was read. *)
StartErrors == {"tip_height", "start_after_end"}

(* The block at h was visited if it can be read, and otherwise reported  *)
(* and passed over.                                                      *)
Accounted(h) ==
    IF CanBeRead(h)
    THEN Logged(h, "visited")
    ELSE /\ Logged(h, "warning") \/ Logged(h, "error")
         /\ ~Logged(h, "visited")

(* C17, as stated: an iteration never aborts at a block, and when it     *)
(* ends every block of the range that can be read was visited and every  *)
(* block that cannot (file missing, end of stream, bad magic, truncated  *)
(* or undecodable payload) was logged and skipped.                       *)
C17_LoggedAndSkipped ==
    /\ it_pc = "aborted" => it_err \in StartErrors
    /\ it_pc = "done" => \A h \in IterHeights : InRange(h) => Accounted(h)

AbortingConditions ==
    {"missing_file", "bad_magic", "truncated", "undecodable", "trailing_bytes"}

(* C17, as the code has it: block_iterator, once its loop has started,   *)
(* logs and skips every block it cannot read (it stops before the loop,  *)
(* having read no block, when the tip height is 0 or the range is        *)
(* empty); iterate_blocks logs and skips only a block at whose           *)
(* offset fewer than 8 bytes are left, and returns the error of the      *)
(* first (highest) block of the range that fails in any other way,       *)
(* leaving the lower blocks unvisited.                                   *)
C17_SkipsWhereHandled ==
    /\ it_in.program = "block_iterator" =>
          /\ it_pc = "aborted" =>
                /\ it_err \in StartErrors
                /\ it_log = <<>>
                /\ it_err = "tip_height" <=> Len(it_in.blocks) = 1
          /\ it_pc = "done" =>
                /\ Len(it_in.blocks) > 1
                /\ \A h \in IterHeights : InRange(h) => Accounted(h)
    /\ it_in.program = "iterate_blocks" =>
          /\ it_pc = "done" =>
                \A h \in IterHeights : InRange(h) =>
                    /\ ConditionAt(h) \notin AbortingConditions
                    /\ Accounted(h)
          /\ it_pc = "aborted" =>
                /\ InRange(it_next)
                /\ ConditionAt(it_next) \in AbortingConditions
                /\ it_err # ""
                /\ \A h \in IterHeights :
                      /\ (InRange(h) /\ h > it_next) =>
                            /\ ConditionAt(h) \notin AbortingConditions
                            /\ Accounted(h)
                      /\ h <= it_next =>
                            \A i \in 1 .. Len(it_log) : it_log[i].height # h

(* iterate_blocks returned an error at a block with a bad magic while a  *)
(* readable block of the range below it was never visited.               *)
C17_Witness ==
    /\ it_in.program = "iterate_blocks"
    /\ it_pc = "aborted"
    /\ ConditionAt(it_next) = "bad_magic"
    /\ it_err = "bad_magic"
    /\ \E h \in IterHeights :
          /\ h < it_next
          /\ InRange(h)
          /\ ConditionAt(h) = "ok"
          /\ ~Logged(h, "visited")

(* iterate_blocks warned about a block at the end of its file and went   *)
(* on to visit a lower one.                                              *)
C17_WitnessEndOfStream ==
    /\ it_in.program = "iterate_blocks"
    /\ it_pc = "done"
    /\ \E h \in IterHeights :
          /\ ConditionAt(h) = "end_of_stream"
          /\ Logged(h, "warning")
          /\ h > 0
          /\ Logged(h - 1, "visited")

(* block_iterator reported a truncated block and visited the next one. *)
C17_WitnessScan ==
    /\ it_in.program = "block_iterator"
    /\ it_pc = "done"
    /\ \E h \in IterHeights :
          /\ ConditionAt(h) = "truncated"
          /\ Logged(h, "error")
          /\ h < it_in.end
          /\ Logged(h + 1, "visited")

(* block_iterator visited a block whose payload goes on after the block. *)
C17_WitnessTrailingBytes ==
    /\ it_in.program = "block_iterator"
    /\ it_pc = "done"
    /\ \E h \in IterHeights :
          /\ ConditionAt(h) = "trailing_bytes"
          /\ Logged(h, "visited")

(* block_iterator over an index of the genesis block alone stopped       *)
(* before reading it.                                                    *)
C17_WitnessTipZero ==
    /\ it_in.program = "block_iterator"
    /\ it_in.blocks = <<"ok">>
    /\ it_pc = "aborted"
    /\ it_err = "tip_height"
    /\ it_log = <<>>


-----------------------------------------------------------------------------
(* Claims about header-only and full-block scans.                        *)

HeaderReadSucceeded == r_last.op = "read_next_header" /\ r_last.res.kind = "Some"

(* A successful read_next_header at offset o of a record with declared   *)
(* length L returns (header, o, L), the header being the 80 bytes after  *)
(* the prefix, and leaves the stream at o + 8 + L.                       *)
HeaderReadSkipsPayload ==
    HeaderReadSucceeded =>
        LET o == r_last.res.offset
            L == u32_from_le_bytes(PlainBytes(o + 4, 4))
        IN /\ r_last.res.size = L
           /\ r_last.res.data = PlainBytes(o + 8, 80)
           /\ r_pos = o + 8 + L
           /\ r_last.res.pos = r_pos

(* The scans are functions of the file and the key, which no call        *)
(* changes: they are compared on the reader as constructed.              *)
ReaderAsConstructed == r_last.op = "new"

VisitedByHeaders(overflow_checks) ==
    header_scan(r_file, r_key, 0, overflow_checks).visited

VisitedByBlocks == block_scan(r_file, r_key, 0).visited

(* Every record either scan visits is read in both modes: its payload   *)
(* is whole and decodes as a block, and its 8 stored prefix bytes are    *)
(* not all zero.                                                         *)
EveryRecordReadsBothWays(overflow_checks) ==
    LET h == VisitedByHeaders(overflow_checks)
        b == VisitedByBlocks
    IN /\ \A i \in 1 .. Len(h) :
             read_next_block(r_file, r_key, h[i][1]).kind = "Some"
       /\ \A i \in 1 .. Len(b) :
             read_next_header(r_file, r_key, b[i][1], overflow_checks).kind = "Some"

(* C21, as stated: a successful read_next_header returns (header, o, L)  *)
(* and leaves the stream at o + 8 + L, and the header-only scan of any   *)
(* container visits the same offsets and lengths as the full-block scan. *)
C21_SameScanAsClaimed ==
    /\ HeaderReadSkipsPayload
    /\ ReaderAsConstructed =>
          \A overflow_checks \in BOOLEAN :
              VisitedByHeaders(overflow_checks) = VisitedByBlocks

(* C21, amended: a successful read_next_header returns (header, o, L)    *)
(* and leaves the stream at o + 8 + L; when every record either scan     *)
(* visits is read in both modes (payload whole and decodable, stored     *)
(* prefix not all zero), the header-only scan and the full-block scan    *)
(* visit the same offsets and lengths.                                   *)
C21_SameScanOfBlocks ==
    /\ HeaderReadSkipsPayload
    /\ ReaderAsConstructed =>
          \A overflow_checks \in BOOLEAN :
              EveryRecordReadsBothWays(overflow_checks) =>
                  VisitedByHeaders(overflow_checks) = VisitedByBlocks

(* The second header of a container of two blocks was read, off the      *)
(* key's period, and both scans visit the two records.                   *)
C21_Witness ==
    /\ HeaderReadSucceeded
    /\ r_last.after = "read_next_header"
    /\ r_last.res.offset = 89
    /\ r_pos = 178
    /\ VisitedByBlocks = <<<<0, 81>>, <<89, 81>>>>
    /\ VisitedByHeaders(TRUE) = VisitedByBlocks

(* A record whose payload does not decode: the header-only scan visits   *)
(* it and the record after it, the full-block scan neither.              *)
C21_WitnessUndecodable ==
    /\ HeaderReadSucceeded
    /\ r_last.res.offset = 90
    /\ VisitedByHeaders(TRUE) = <<<<0, 82>>, <<90, 81>>>>
    /\ VisitedByBlocks = <<>>

(* A block whose stored prefix is all zero under the key: the            *)
(* header-only scan takes it for padding, the full-block scan reads it.  *)
C21_WitnessZeroPrefix ==
    /\ r_last.op = "read_next_header"
    /\ r_last.res.kind = "None"
    /\ r_last.res.offset = 0
    /\ VisitedByHeaders(TRUE) = <<>>
    /\ VisitedByBlocks # <<>>


-----------------------------------------------------------------------------
(* Claims about the obfuscation-key record.                              *)

KeyReturnedBy(fn) == p_pc = "called" /\ p_out.fn = fn

RecordBytes == CHOOSE v \in p_in.record : TRUE

(* The block-index store: an absent record gives the all-zero key and no *)
(* error, a record of at least 8 bytes its first 8 bytes.                *)
BlockIndexKeyAsClaimed ==
    KeyReturnedBy("read_obfuscate_key") =>
        /\ p_in.record = {} =>
              /\ p_out.kind = "Ok"
              /\ p_out.value = <<0, 0, 0, 0, 0, 0, 0, 0>>
        /\ (p_in.record # {} /\ Len(RecordBytes) >= 8) =>
              /\ p_out.kind = "Ok"
              /\ p_out.value = SubSeq(RecordBytes, 1, 8)

(* C22, as stated: the block-index store as above; in the chainstate     *)
(* store an absent record is an error and a record of at least 9 bytes   *)
(* gives exactly its bytes 1..9, eight bytes, as the key.                *)
C22_KeyAsClaimed ==
    /\ BlockIndexKeyAsClaimed
    /\ KeyReturnedBy("read_obfuscation_key") =>
          /\ p_in.record = {} => p_out.kind = "Err"
          /\ (p_in.record # {} /\ Len(RecordBytes) >= 9) =>
                /\ p_out.kind = "Ok"
                /\ Len(p_out.value) = 8
                /\ p_out.value = SubSeq(RecordBytes, 2, 9)

(* C22, as the code has it: in the chainstate store a record of at least *)
(* 9 bytes gives all its bytes but the first, which are bytes 1..9       *)
(* exactly when the record is 9 bytes long.                              *)
C22_KeyOfRecord ==
    /\ BlockIndexKeyAsClaimed
    /\ KeyReturnedBy("read_obfuscation_key") =>
          /\ p_in.record = {} => p_out.kind = "Err"
          /\ (p_in.record # {} /\ Len(RecordBytes) >= 9) =>
                /\ p_out.kind = "Ok"
                /\ p_out.value = SubSeq(RecordBytes, 2, Len(RecordBytes))
                /\ Len(RecordBytes) = 9 =>
                      p_out.value = SubSeq(RecordBytes, 2, 9)

(* A chainstate record of 10 bytes gave a key of 9 bytes. *)
C22_Witness ==
    /\ KeyReturnedBy("read_obfuscation_key")
    /\ p_in.record # {}
    /\ Len(RecordBytes) = 10
    /\ p_out.kind = "Ok"
    /\ Len(p_out.value) = 9

(* A block-index record of 10 bytes gave its first 8 bytes, not zero. *)
C22_WitnessBlockIndex ==
    /\ KeyReturnedBy("read_obfuscate_key")
    /\ p_in.record # {}
    /\ Len(RecordBytes) = 10
    /\ Len(p_out.value) = 8
    /\ p_out.value[8] # 0

(* The record is absent from the chainstate store. *)
C22_WitnessAbsent ==
    /\ KeyReturnedBy("read_obfuscation_key")
    /\ p_in.record = {}
    /\ p_out.kind = "Err"


-----------------------------------------------------------------------------
(* Claims about the fee of a transaction in the fee_rates extractor.     *)

FeeReturned == p_pc = "called" /\ p_out.fn = "fee_rates"

InputMissing == \E i \in 1 .. Len(p_in.lookups) : p_in.lookups[i] = {}

(* The input values that were found. *)
RECURSIVE FoundValues(_)
FoundValues(lookups) ==
    IF lookups = <<>> THEN <<>>
    ELSE (IF lookups[1] = {} THEN <<>> ELSE <<CHOOSE v \in lookups[1] : TRUE>>)
         \o FoundValues(Tail(lookups))

(* The sums as numbers of five limbs (no wrap). *)
InputSum == ExactSum(FoundValues(p_in.lookups))
OutputSum == ExactSum(p_in.output_values)

InputsBelowOutputs == LessFrom(InputSum, OutputSum, Len(InputSum))

SumLeaves64Bits == InputSum[5] # 0 \/ OutputSum[5] # 0

(* C23, as stated: the extraction aborts when an input is missing from   *)
(* the tracker or the input values sum to less than the output values,   *)
(* and otherwise gives the fee sum(inputs) - sum(outputs), which is not  *)
(* negative.                                                             *)
C23_FeeAsClaimed ==
    FeeReturned =>
        /\ (InputMissing \/ InputsBelowOutputs) => p_out.panic
        /\ ~(InputMissing \/ InputsBelowOutputs) =>
              /\ ~p_out.panic
              /\ Append(p_out.value, 0) = SubLimbs(InputSum, OutputSum, 1, 0)

(* C23, where no sum reaches 2^64: as stated; and a build with overflow  *)
(* checks aborts when a sum does.                                        *)
C23_FeeWithoutOverflow ==
    FeeReturned =>
        /\ InputMissing => p_out.panic
        /\ ~SumLeaves64Bits =>
              /\ InputsBelowOutputs => p_out.panic
              /\ ~(InputMissing \/ InputsBelowOutputs) =>
                    /\ ~p_out.panic
                    /\ Append(p_out.value, 0) = SubLimbs(InputSum, OutputSum, 1, 0)
        /\ (SumLeaves64Bits /\ p_out.overflow_checks) => p_out.panic

(* Two outputs of 2^63 against inputs worth less: without overflow       *)
(* checks the output sum wraps to 0 and a fee is returned.               *)
C23_Witness ==
    /\ FeeReturned
    /\ ~p_out.overflow_checks
    /\ ~InputMissing
    /\ p_in.output_values = <<<<0, 0, 0, LimbBase \div 2>>, <<0, 0, 0, LimbBase \div 2>>>>
    /\ InputsBelowOutputs
    /\ ~p_out.panic
    /\ p_out.value = U64Of(1)

(* An input missing from the tracker aborts. *)
C23_WitnessMissing ==
    /\ FeeReturned
    /\ Len(p_in.lookups) = 2
    /\ p_in.lookups[2] = {}
    /\ p_in.lookups[1] # {}
    /\ p_out.panic

(* Inputs below outputs, no overflow: aborts. *)
C23_WitnessNegative ==
    /\ FeeReturned
    /\ ~InputMissing
    /\ ~SumLeaves64Bits
    /\ InputsBelowOutputs
    /\ p_out.panic

(* Inputs cover the outputs: the fee is the difference. *)
C23_WitnessFee ==
    /\ FeeReturned
    /\ p_in.lookups = <<{U64Of(MaxValue)}, {U64Of(1)}>>
    /\ p_in.output_values = <<U64Of(1)>>
    /\ ~p_out.panic
    /\ p_out.value = U64Of(MaxValue)


-----------------------------------------------------------------------------
(* Claims about a failed export.                                         *)

ExportFailed == xpc \in {"error", "panic"}

BlockFailures == {"not_in_index", "could_not_read", "utxo_collision"}

(* C24: an export that fails at a block (height not in the index, block  *)
(* unreadable, tracker collision, missing input or negative fee) leaves  *)
(* no output file and emits no row; the file exists only once every      *)
(* height of the range has been processed, and then holds every row.     *)
C24_NoPartialExport ==
    /\ (ExportFailed /\ xerr \notin WriteErrors) => out_file = {}
    /\ out_file # {} =>
          /\ xpc = "done" \/ (ExportFailed /\ xerr = "verify")
          /\ xpc = "done" => xerr = ""
          /\ x_height = export_max_height + 1
          /\ Len(x_chain) = export_max_height + 1
          /\ out_file = {builders}

(* A block could not be read after the rows of earlier blocks had been   *)
(* gathered.                                                             *)
C24_Witness ==
    /\ xpc = "error"
    /\ xerr = "could_not_read"
    /\ x_height > 0
    /\ Len(builders[1]) = x_height
    /\ out_file = {}

(* A tracker collision after an earlier block. *)
C24_WitnessCollision ==
    /\ xpc = "error"
    /\ xerr = "utxo_collision"
    /\ x_height > 0
    /\ Len(builders[1]) = x_height
    /\ out_file = {}

(* A tracker collision between the outputs of two different            *)
(* transactions, whose keys are the same digest.                        *)
C24_WitnessSharedKey ==
    /\ xpc = "error"
    /\ xerr = "utxo_collision"
    /\ x_height > 0
    /\ out_file = {}
    /\ x_chain[Len(x_chain)] = cur_block
    /\ \A j \in 1 .. Len(x_chain) - 1 :
          TxidsOf(x_chain[j]) \cap TxidsOf(cur_block) = {}
    /\ \A i, j \in 1 .. Len(cur_block) :
          i # j => cur_block[i].txid # cur_block[j].txid

(* Every block was processed and the file could not be created or       *)
(* written.                                                              *)
C24_WitnessWriteFailed ==
    /\ xpc = "error"
    /\ xerr = "write"
    /\ x_height = export_max_height + 1
    /\ out_file = {}

(* The file was written and its verification failed. *)
C24_WitnessVerifyFailed ==
    /\ ExportFailed
    /\ xerr = "verify"
    /\ out_file = {builders}

(* A missing input or a negative fee after an earlier block. *)
C24_WitnessPanic ==
    /\ xpc = "panic"
    /\ x_height > 0
    /\ Len(builders[1]) = x_height
    /\ out_file = {}

(* A height past the tip, after every block of the index. *)
C24_WitnessNotInIndex ==
    /\ xpc = "error"
    /\ xerr = "not_in_index"
    /\ Len(builders[1]) = x_in.tip_height + 1
    /\ out_file = {}

-----------------------------------------------------------------------------
(* Claims about the resolved map and the backward walk of build_index,    *)
(* checked under SpecBuild.                                               *)

(* The backward loop of main.rs:421-448 is at a block of the map whose    *)
(* resolved height is the loop's height counter.                          *)
WalkOnResolvedHeight ==
    /\ current_hash \in DOMAIN blocks_by_hash
    /\ HeightOf(current_hash) = Known(current_height)

(* C25: after height resolution every block Known(h) with h > 0 has its   *)
(* prev-hash in the map with state Known(h - 1), and the only block with  *)
(* Known(0) is the chosen genesis; so once a tip has been selected the    *)
(* backward walk from the tip steps along blocks of the map, reaches the  *)
(* genesis with the height counter exactly 0, and the "Chain broken"      *)
(* branch is never taken.                                                 *)
C25_WalkReachesGenesis ==
    /\ ResolutionDone =>
          /\ \A x \in DOMAIN blocks_by_hash :
                (IsKnown(HeightOf(x)) /\ HeightOf(x).h > 0) =>
                   /\ blocks_by_hash[x].prev_hash \in DOMAIN blocks_by_hash
                   /\ HeightOf(blocks_by_hash[x].prev_hash)
                         = Known(HeightOf(x).h - 1)
          /\ \A x \in DOMAIN blocks_by_hash :
                HeightOf(x) = Known(0) => genesis_hash = {x}
    /\ bpc = "linearize" => WalkOnResolvedHeight
    /\ bpc \in {"save", "done"} =>
          /\ WalkOnResolvedHeight
          /\ current_height = 0
          /\ genesis_hash = {current_hash}
    /\ ~(bpc = "error" /\ berr = "chain_broken")
    /\ bpc = "panic" => berr = "subtract_overflow"

(* A walk of two steps down to the genesis, in a set that also holds a    *)
(* second zero-prev block and a block on a side branch.                   *)
C25_Witness ==
    /\ bpc = "save"
    /\ current_height = 0
    /\ block_index.tip_height = 2
    /\ Cardinality(ZeroPrevBlocks) >= 2
    /\ \E x \in Discovered : HeightOf(x) = Known(1) /\ x \notin
          { block_index.blocks[k] : k \in DOMAIN block_index.blocks }

(* Number of block hashes in the runs checked for progress. *)
MaxLiveBlocks == 4

BuildLiveInit == BuildInit /\ DOMAIN headers \subseteq 1 .. MaxLiveBlocks

(* build_index is one sequential run: a step that can be taken is taken. *)
SpecBuildLive == BuildLiveInit /\ [][BuildNext]_vars /\ WF_vars(BuildNext)

(* Number of hashes the loop of main.rs:311-347 pushes in a call on x. *)
WalkLength(x, map) == Len(WalkBack(x, <<>>, map).stack)

(* A step of the resolution pass: the walk of the call pushes at most    *)
(* every block of the map and one hash more, and the call leaves its own *)
(* hash resolved.                                                        *)
C26_Step ==
    last_call' # last_call =>
       /\ pending' = pending \ {last_call'.hash}
       /\ pending' # pending
       /\ WalkLength(last_call'.hash, blocks_by_hash)
             <= Cardinality(DOMAIN blocks_by_hash) + 1
       /\ blocks_by_hash'[last_call'.hash].height # NotYetKnown
       /\ last_call'.ret = blocks_by_hash'[last_call'.hash].height

(* C26: on every (finite) discovered set, whose prev-hash links have no  *)
(* cycle, the resolution pass terminates, each call after a walk no      *)
(* longer than the set allows, and leaves no block NotYetKnown: each     *)
(* ends Known or Orphaned.                                               *)
C26_ResolutionTerminates ==
    /\ [][C26_Step]_vars
    /\ (bpc = "resolve") ~> (bpc = "resolve" /\ pending = {})
    /\ [](ResolutionDone =>
             \A x \in Discovered :
                /\ x \in DOMAIN blocks_by_hash
                /\ HeightOf(x).tag \in {"Known", "Orphaned"})

(* The pass has ended on a set that holds blocks of both outcomes, its   *)
(* last call having walked back to a block resolved at height 1.         *)
C26_Witness ==
    /\ bpc = "resolve" /\ pending = {}
    /\ Cardinality(Discovered) = MaxLiveBlocks
    /\ \E x \in Discovered : HeightOf(x) = Orphaned
    /\ last_call.before = NotYetKnown
    /\ last_call.ret = Known(2)
    /\ HeightOf(headers[last_call.hash]) = Known(1)
    /\ last_call.mutated

(* The block the prev-hash walk from x ends at: a zero-prev block, or    *)
(* ZeroHash when the walk leaves the discovered set.                     *)
RECURSIVE RootOf(_)
RootOf(x) ==
    IF x \notin Discovered THEN ZeroHash
    ELSE IF headers[x] = ZeroHash THEN x
    ELSE RootOf(headers[x])

(* The map as resolution leaves it had g been the genesis marked. *)
ResolvedWithGenesis(g) ==
    ResolveInOrder([x \in Discovered |->
                       [prev_hash |-> headers[x],
                        height |-> IF x = g THEN Known(0) ELSE NotYetKnown]],
                   Discovered)

(* The errors of build_index that come before or during the reading of  *)
(* the containers, and the error of storing the index.                   *)
ReadErrors == {"stdin", "xor_key", "read_dir", "read_header"}
SaveErrors == {"save"}

(* The scan of a zero-prev header makes that block the genesis candidate, *)
(* whatever the candidate was; the scan of another header keeps it.       *)
C27_ScanStep ==
    \A x \in Discovered :
       (bpc = "scan" /\ x \notin scanned /\ x \in scanned') =>
          genesis_hash' = IF headers[x] = ZeroHash THEN {x} ELSE genesis_hash

(* C27: with more than one zero-prev block discovered, build_index does  *)
(* not fail for that reason (once the containers are read it fails only  *)
(* on a fork at the tip); the                                            *)
(* zero-prev block scanned last, and no other, is set Known(0); every    *)
(* other zero-prev block and every block whose prev-hash walk ends at it *)
(* is Orphaned; and the heights are those of that scan order only: with  *)
(* another zero-prev block scanned last the resolved map is another.     *)
C27_LastZeroPrevIsGenesis ==
    /\ [][C27_ScanStep]_vars
    /\ [](Cardinality(ZeroPrevBlocks) > 1 =>
            /\ (bpc = "error" /\ berr \notin ReadErrors \cup SaveErrors) =>
                  (berr = "fork_at_tip" /\ Cardinality(AtMaxKnownHeight) >= 2)
            /\ bpc = "panic" => berr = "subtract_overflow"
            /\ ResolutionDone =>
                  /\ \E g \in ZeroPrevBlocks : genesis_hash = {g}
                  /\ \A x \in Discovered :
                        /\ HeightOf(x) = Known(0) <=> x \in genesis_hash
                        /\ (RootOf(x) \in ZeroPrevBlocks \ genesis_hash) =>
                              HeightOf(x) = Orphaned
                        /\ RootOf(x) \in genesis_hash => IsKnown(HeightOf(x))
                  /\ \A y \in ZeroPrevBlocks \ genesis_hash :
                        ResolvedWithGenesis(y) # blocks_by_hash)

(* A finished build over two zero-prev blocks, each with a child: the   *)
(* chain of the one scanned last is the index, the other is Orphaned.   *)
C27_Witness ==
    /\ bpc = "done"
    /\ Cardinality(ZeroPrevBlocks) = 2
    /\ block_index.tip_height >= 1
    /\ \E y \in ZeroPrevBlocks \ genesis_hash :
          \E x \in Discovered : headers[x] = y /\ HeightOf(x) = Orphaned

(* The same containers scanned in the other order: the genesis is the   *)
(* zero-prev block of the smaller hash number.                          *)
C27_WitnessOtherOrder ==
    /\ bpc = "done"
    /\ Cardinality(ZeroPrevBlocks) = 2
    /\ \E g \in genesis_hash : \E y \in ZeroPrevBlocks : g < y

(* The two zero-prev blocks scanned in the opposite order. *)
C27_WitnessReverseOrder ==
    /\ bpc = "done"
    /\ Cardinality(ZeroPrevBlocks) = 2
    /\ \E g \in genesis_hash : \E y \in ZeroPrevBlocks : g > y

(* The hashes on the prev-hash walk from x, x included, inside the       *)
(* discovered set.                                                       *)
RECURSIVE ChainOf(_)
ChainOf(x) ==
    IF x \notin Discovered THEN {}
    ELSE {x} \cup ChainOf(headers[x])

IndexedHashes(idx) == { idx.blocks[k] : k \in DOMAIN idx.blocks }

(* C28: in every index that build_index built or stored, the entries    *)
(* form one hash-linked chain: the entry at tip_height is the selected  *)
(* tip, the entry at height 0 the genesis, the prev-hash of the block   *)
(* at h (1 <= h <= tip_height) is the block_hash of the entry at h - 1, *)
(* each entry sits at the height resolution gave its block, and Known   *)
(* blocks off the tip's chain (side branches) are not in the index.     *)
C28_IndexIsTheTipChain ==
    \A idx \in saved \cup (IF bpc = "done" THEN {block_index} ELSE {}) :
       /\ idx.tip_height \in DOMAIN idx.blocks
       /\ tip_hash = {idx.blocks[idx.tip_height]}
       /\ 0 \in DOMAIN idx.blocks
       /\ genesis_hash = {idx.blocks[0]}
       /\ headers[idx.blocks[0]] = ZeroHash
       /\ \A h \in 1 .. idx.tip_height :
             /\ h \in DOMAIN idx.blocks /\ (h - 1) \in DOMAIN idx.blocks
             /\ headers[idx.blocks[h]] = idx.blocks[h - 1]
       /\ \A h \in DOMAIN idx.blocks :
             /\ idx.blocks[h] \in Discovered
             /\ HeightOf(idx.blocks[h]) = Known(h)
       /\ \A t \in tip_hash : IndexedHashes(idx) = ChainOf(t)
       /\ \A x \in Discovered :
             (IsKnown(HeightOf(x)) /\ \E t \in tip_hash : x \notin ChainOf(t))
                => x \notin IndexedHashes(idx)

(* A saved index of three entries over a set with a Known block on a    *)
(* shorter side branch and an Orphaned block.                           *)
C28_Witness ==
    /\ saved # {}
    /\ \A idx \in saved :
          /\ idx.tip_height = 2
          /\ \E x \in Discovered :
                /\ HeightOf(x) = Known(1)
                /\ x \notin IndexedHashes(idx)
                /\ headers[x] = idx.blocks[0]
          /\ \E x \in Discovered : HeightOf(x) = Orphaned

-----------------------------------------------------------------------------
(* Claims about the tracker as a set of unspent outputs, checked under   *)
(* SpecExport.  The blocks applied so far are x_chain.                   *)

(* Every output of the block, OP_RETURN or not, as an outpoint. *)
OutPointsCreatedIn(block) ==
    UNION { { OutPoint(block[t].txid, i - 1) : i \in 1 .. Len(block[t].outputs) } :
            t \in 1 .. Len(block) }

(* The outpoints the inputs of the block's non-coinbase transactions name. *)
OutPointsSpentIn(block) ==
    { SpentInputs(block)[k] : k \in 1 .. Len(SpentInputs(block)) }

(* The outputs the block hands to add_output, as records. *)
OutputsAddedIn(block) ==
    { AddedOutputs(block)[k] : k \in 1 .. Len(AddedOutputs(block)) }

CreatedUpTo(chain, n) == UNION { OutPointsCreatedIn(chain[i]) : i \in 1 .. n }
SpentUpTo(chain, n) == UNION { OutPointsSpentIn(chain[i]) : i \in 1 .. n }
AddedUpTo(chain, n) == UNION { OutputsAddedIn(chain[i]) : i \in 1 .. n }

(* The (txid, index) pairs the tracker is called with. *)
TrackedPairs(chain) ==
    { OutPoint(o.txid, o.vout) : o \in AddedUpTo(chain, Len(chain)) }
       \cup SpentUpTo(chain, Len(chain))

(* No two distinct (txid, index) pairs of the chain share a key. *)
KeysDistinct(chain) ==
    \A p, q \in TrackedPairs(chain) :
       p # q => utxo_key(p.txid, p.vout) # utxo_key(q.txid, q.vout)

(* Every input names an output created in its own or an earlier block. *)
InputsNameCreated(chain) ==
    \A i \in 1 .. Len(chain) :
       OutPointsSpentIn(chain[i]) \subseteq CreatedUpTo(chain, i)

(* No (txid, index) pair is created by two transactions of the chain. *)
CreatedOnce(chain) ==
    \A i, j \in 1 .. Len(chain) :
       i # j => OutPointsCreatedIn(chain[i]) \cap OutPointsCreatedIn(chain[j]) = {}

(* The non-OP_RETURN outputs of the chain that no non-coinbase input of *)
(* the chain names.                                                     *)
UnspentOutputs(chain) ==
    { o \in AddedUpTo(chain, Len(chain)) :
        OutPoint(o.txid, o.vout) \notin SpentUpTo(chain, Len(chain)) }

(* The tracker holds exactly the given outputs, each under its key with *)
(* its value, and nothing is staged.                                    *)
TrackerHolds(u, outs) ==
    /\ u.to_remove = {}
    /\ DOMAIN u.active = { utxo_key(o.txid, o.vout) : o \in outs }
    /\ \A o \in outs : u.active[utxo_key(o.txid, o.vout)] = o.value

(* commit_removals has run for the block at x_height - 1, the last of   *)
(* x_chain.                                                             *)
BlockCommitted == TrackerEnabled /\ BlockFinished /\ Len(x_chain) = x_height

(* C29 as claimed: when blocks 0..h have been applied in ascending      *)
(* order, no two distinct (txid, index) pairs share a key and every     *)
(* input names an output created in its own or an earlier block, then   *)
(* after the commit_removals of block h the active set holds exactly    *)
(* the non-OP_RETURN outputs created in blocks 0..h that no             *)
(* non-coinbase input of blocks 0..h names, each with its value, and    *)
(* the staging set is empty.                                            *)
C29_UnspentAsClaimed ==
    (BlockCommitted /\ KeysDistinct(x_chain) /\ InputsNameCreated(x_chain)) =>
        TrackerHolds(TheTracker, UnspentOutputs(x_chain))

(* C29 amended: the same, for chains in which no (txid, index) pair is  *)
(* created twice.                                                       *)
C29_UnspentOfChain ==
    (BlockCommitted /\ KeysDistinct(x_chain) /\ InputsNameCreated(x_chain)
        /\ CreatedOnce(x_chain)) =>
        TrackerHolds(TheTracker, UnspentOutputs(x_chain))

(* Two blocks committed: an output of the first was spent in the        *)
(* second, an OP_RETURN output was created, and outputs remain unspent. *)
C29_Witness ==
    /\ BlockCommitted /\ KeysDistinct(x_chain) /\ InputsNameCreated(x_chain)
    /\ CreatedOnce(x_chain)
    /\ x_height = 2
    /\ OutPointsSpentIn(x_chain[2]) \cap OutPointsCreatedIn(x_chain[1]) # {}
    /\ Cardinality(CreatedUpTo(x_chain, 2)) > Cardinality(AddedUpTo(x_chain, 2))
    /\ Cardinality(UnspentOutputs(x_chain)) = 2

(* An output created and spent in the same block. *)
C29_WitnessSameBlock ==
    /\ BlockCommitted /\ KeysDistinct(x_chain) /\ InputsNameCreated(x_chain)
    /\ CreatedOnce(x_chain)
    /\ x_height = 2
    /\ OutPointsSpentIn(x_chain[2]) \cap OutPointsCreatedIn(x_chain[2]) # {}
    /\ UnspentOutputs(x_chain) # {}

(* Two pairs of the chain share a key, and the first was spent before   *)
(* the second was created: the chain is outside the statement.          *)
C29_WitnessSharedKey ==
    /\ BlockCommitted /\ ~KeysDistinct(x_chain) /\ InputsNameCreated(x_chain)
    /\ CreatedOnce(x_chain)
    /\ x_height = 2
    /\ TrackerHolds(TheTracker, UnspentOutputs(x_chain))

(* A coinbase whose output was spent appears again in a later block:    *)
(* its output is in the active set although an earlier input names it.  *)
C29_WitnessCreatedTwice ==
    /\ BlockCommitted /\ KeysDistinct(x_chain) /\ InputsNameCreated(x_chain)
    /\ ~CreatedOnce(x_chain)
    /\ \E p \in SpentUpTo(x_chain, Len(x_chain)) :
          utxo_key(p.txid, p.vout) \in DOMAIN TheTracker.active

(* The builders that receive a utxo_size value: position among the       *)
(* expanded columns of every utxo_size column of the request.            *)
UtxoSizeBuilders ==
    { ExpandedCount(SubSeq(x_in.columns, 1, i - 1)) + 1 :
        i \in { j \in 1 .. Len(x_in.columns) : x_in.columns[j] = ColUtxoSize } }

(* Keys of the active set that the inputs of the block name. *)
ActiveKeysSpentBy(u, block) ==
    { utxo_key(p.txid, p.vout) : p \in OutPointsSpentIn(block) }
       \cap DOMAIN u.active

(* The steps of one block of an export with a utxo_size column:          *)
(* the add step enters every output of the block; the extraction, with   *)
(* every add_output of the block made and no removal staged or made,     *)
(* appends the size of the active set as it then is; the removal step,   *)
(* which comes after, takes the block's spent outputs out and leaves the *)
(* exported value as it was.                                             *)
C30_Step ==
    (TrackerEnabled /\ UtxoSizeBuilders # {}) =>
       /\ (xpc = "add" /\ xpc' = "extract") =>
             utxo_len(CHOOSE u \in utxo_set' : TRUE)
                = utxo_len(TheTracker) + Len(AddedOutputs(cur_block))
       /\ (xpc = "extract" /\ xpc' = "remove") =>
             /\ xlog = ExpectedAdds
             /\ TheTracker.to_remove = {}
             /\ utxo_set' = utxo_set
             /\ \A o \in SameBlockSpends :
                   utxo_key(o.txid, o.vout) \in DOMAIN TheTracker.active
             /\ \A c \in UtxoSizeBuilders :
                   /\ Len(builders'[c]) = x_height + 1
                   /\ builders'[c][x_height + 1] = F64Of(utxo_len(TheTracker))
       /\ (xpc = "remove" /\ xpc' = "read") =>
             /\ builders' = builders
             /\ \A c \in UtxoSizeBuilders :
                   builders[c][x_height + 1]
                      = F64Of(utxo_len(CHOOSE u \in utxo_set' : TRUE)
                              + Cardinality(ActiveKeysSpentBy(TheTracker,
                                                              cur_block)))

(* C30: the utxo_size value exported for the block at height h is the    *)
(* size of the active set after all of block h's outputs have been added *)
(* and before any of block h's inputs have been removed, so it counts    *)
(* the outputs that block h itself spends.                               *)
C30_SizeBeforeRemovals == [][C30_Step]_vars

(* The block at height 1 was finished; it spends an output of its own,   *)
(* and the exported size counts it beside the outputs that remain.       *)
C30_Witness ==
    /\ TrackerEnabled /\ UtxoSizeBuilders # {}
    /\ BlockFinished /\ x_height = 2
    /\ SameBlockSpends # {}
    /\ utxo_len(TheTracker) = 2
    /\ \A c \in UtxoSizeBuilders :
          builders[c][2] = F64Of(utxo_len(TheTracker) + 1)

(* The block at height 1 was finished; it spends an output of the        *)
(* earlier block, counted in the size exported for height 1.             *)
C30_WitnessEarlierOutput ==
    /\ TrackerEnabled /\ UtxoSizeBuilders # {}
    /\ BlockFinished /\ x_height = 2
    /\ OutPointsSpentIn(cur_block) \cap OutPointsCreatedIn(x_chain[1]) # {}
    /\ \A c \in UtxoSizeBuilders :
          builders[c][2] = F64Of(utxo_len(TheTracker) + 1)

(* The size of a block that spends its own output is about to be taken. *)
C30_WitnessExtract ==
    /\ TrackerEnabled /\ UtxoSizeBuilders # {}
    /\ xpc = "remove"
    /\ SameBlockSpends # {}
    /\ \A c \in UtxoSizeBuilders :
          builders[c][x_height + 1] = F64Of(utxo_len(TheTracker))

=============================================================================
